---- MODULE Spec2Model ----
(***************************************************************************)
(* Proof verification and witness selection of the Reclaim Python SDK.     *)
(*                                                                         *)
(* Strings are sequences of one-character strings, so that joining with    *)
(* newlines, lower-casing, quote stripping and decimal formatting are      *)
(* computed and not assumed.  Web3.keccak(text=...) is computed as         *)
(* Keccak-256 of the UTF-8 bytes of the text, and hash_bytes.hex() is      *)
(* taken to give the bare hex digits.                                      *)
(***************************************************************************)
EXTENDS Integers, Sequences, FiniteSets, TLC

(***************************************************************************)
(* Bounds of the model.                                                    *)
(***************************************************************************)
\* largest witness pool of a beacon state handed to the selector
MaxPool == 9
\* selector calls made against one beacon state object in one behaviour
MaxCalls == 2
\* longest signatures list of a proof given to verify_proof alone
MaxSigs == 2
\* longest list of proofs given to verify_proof
MaxList == 3
\* largest witnessesRequiredForClaim of the registry's epochs
MaxRequired == 3
\* longest expected_witness_addresses list given to assert_valid_signed_claim
MaxExpected == 2
\* longest provider, parameters or context of a ClaimInfo hashed directly
MaxField == 1
\* most entries of the params dict given to set_params
MaxParams == 2

\* calls of get_contract in a row
MaxGets == 4

\* calls of clear_interval made while the timeout is pending
MaxClears == 2

(***************************************************************************)
(* Characters and strings.                                                 *)
(***************************************************************************)
\* the printable ASCII characters from " " (32) to "_" (95) and from "a" (97)
\* to "~" (126)
ASCII_32_95 ==
    << " ", "!", "\"", "#", "$", "%", "&", "'", "(", ")", "*", "+", ",", "-", ".", "/",
       "0", "1", "2", "3", "4", "5", "6", "7", "8", "9", ":", ";", "<", "=", ">", "?",
       "@", "A", "B", "C", "D", "E", "F", "G", "H", "I", "J", "K", "L", "M", "N", "O",
       "P", "Q", "R", "S", "T", "U", "V", "W", "X", "Y", "Z", "[", "\\", "]", "^", "_" >>

ASCII_97_126 ==
    << "a", "b", "c", "d", "e", "f", "g", "h", "i", "j", "k", "l", "m", "n", "o",
       "p", "q", "r", "s", "t", "u", "v", "w", "x", "y", "z", "{", "|", "}", "~" >>

\* the UTF-8 code of a character: one byte for the characters above and "\n"
OrdTable ==
    [c \in { "\n" } \cup { ASCII_32_95[i] : i \in 1..64 } \cup { ASCII_97_126[i] : i \in 1..30 } |->
        IF c = "\n" THEN 10
        ELSE IF \E i \in 1..64 : ASCII_32_95[i] = c
        THEN 31 + (CHOOSE i \in 1..64 : ASCII_32_95[i] = c)
        ELSE 96 + (CHOOSE i \in 1..30 : ASCII_97_126[i] = c)]

Ord(c) == OrdTable[c]

\* text.encode("utf-8")
encode(text) == [i \in 1..Len(text) |-> Ord(text[i])]

NL == << "\n" >>

\* str.lower() on one character, then on a string: the letters "A".."Z"
\* (codes 65..90) go to the letter 32 codes up, every other character of
\* OrdTable stays
LowerChar(c) ==
    IF c \in DOMAIN OrdTable /\ Ord(c) \in 65..90
    THEN ASCII_97_126[Ord(c) - 64]
    ELSE c

lower(s) == [i \in 1..Len(s) |-> LowerChar(s[i])]

\* s.replace(ch, "") for a one-character ch
remove_char(s, ch) == SelectSeq(s, LAMBDA c : c # ch)

DIGITS == << "0", "1", "2", "3", "4", "5", "6", "7", "8", "9" >>

\* str(n) for a natural number: its decimal digits
RECURSIVE str(_)
str(n) == IF n < 10 THEN << DIGITS[n + 1] >>
          ELSE str(n \div 10) \o << DIGITS[(n % 10) + 1] >>

\* "\n".join(lines)
RECURSIVE join(_)
join(lines) ==
    IF Len(lines) = 0 THEN << >>
    ELSE IF Len(lines) = 1 THEN lines[1]
    ELSE lines[1] \o NL \o join(Tail(lines))

(***************************************************************************)
(* Hashing: Web3.keccak(text=...) is Keccak-256 of the UTF-8 bytes of the  *)
(* text.  The state of 25 lanes of 64 bits is a sequence of 200 bytes;     *)
(* byte k of lane x + 5y, the least significant being byte 0, stands at    *)
(* index 8 (x + 5y) + k + 1.                                               *)
(***************************************************************************)
DIGEST_LEN == 32

\* bytes absorbed per block
RATE == 136

STATE_LEN == 200

\* rotation offsets in bits, for lane x + 5y at index x + 5y + 1
RHO ==
    <<  0,  1, 62, 28, 27,
       36, 44,  6, 55, 20,
        3, 10, 43, 25, 39,
       41, 45, 15, 21,  8,
       18,  2, 61, 56, 14 >>

\* the round constants, as the eight bytes of lane 0
RC ==
    << <<   1,   0,   0,   0,   0,   0,   0,   0 >>,
       << 130, 128,   0,   0,   0,   0,   0,   0 >>,
       << 138, 128,   0,   0,   0,   0,   0, 128 >>,
       <<   0, 128,   0, 128,   0,   0,   0, 128 >>,
       << 139, 128,   0,   0,   0,   0,   0,   0 >>,
       <<   1,   0,   0, 128,   0,   0,   0,   0 >>,
       << 129, 128,   0, 128,   0,   0,   0, 128 >>,
       <<   9, 128,   0,   0,   0,   0,   0, 128 >>,
       << 138,   0,   0,   0,   0,   0,   0,   0 >>,
       << 136,   0,   0,   0,   0,   0,   0,   0 >>,
       <<   9, 128,   0, 128,   0,   0,   0,   0 >>,
       <<  10,   0,   0, 128,   0,   0,   0,   0 >>,
       << 139, 128,   0, 128,   0,   0,   0,   0 >>,
       << 139,   0,   0,   0,   0,   0,   0, 128 >>,
       << 137, 128,   0,   0,   0,   0,   0, 128 >>,
       <<   3, 128,   0,   0,   0,   0,   0, 128 >>,
       <<   2, 128,   0,   0,   0,   0,   0, 128 >>,
       << 128,   0,   0,   0,   0,   0,   0, 128 >>,
       <<  10, 128,   0,   0,   0,   0,   0,   0 >>,
       <<  10,   0,   0, 128,   0,   0,   0, 128 >>,
       << 129, 128,   0, 128,   0,   0,   0, 128 >>,
       << 128, 128,   0,   0,   0,   0,   0, 128 >>,
       <<   1,   0,   0, 128,   0,   0,   0,   0 >>,
       <<   8, 128,   0, 128,   0,   0,   0, 128 >> >>

Pow2 == << 1, 2, 4, 8, 16, 32, 64, 128, 256 >>

\* a ^ b on integers below 2^width
RECURSIVE XorBits(_, _, _)
XorBits(a, b, width) ==
    IF width = 0 THEN 0
    ELSE ((a + b) % 2) + 2 * XorBits(a \div 2, b \div 2, width - 1)

\* a ^ b on bytes, tabulated
XorTable == [k \in 1..65536 |-> XorBits((k - 1) \div 256, (k - 1) % 256, 8)] \o << >>

Xor(a, b) == XorTable[256 * a + b + 1]

\* a & b on bytes
And(a, b) == (a + b - Xor(a, b)) \div 2

LaneOf(i) == (i - 1) \div 8

ByteOf(i) == (i - 1) % 8

ByteAt(lane, k) == 8 * lane + k + 1

\* theta: for byte k of column x at index 8 x + k + 1, the indexes of that
\* byte of the parity of column x - 1, and of the two bytes of the parity of
\* column x + 1 that its rotation by one bit draws on
ThetaLeft == [i \in 1..40 |-> ByteAt((LaneOf(i) + 4) % 5, ByteOf(i))] \o << >>

ThetaRight == [i \in 1..40 |-> ByteAt((LaneOf(i) + 1) % 5, ByteOf(i))] \o << >>

ThetaRightBelow == [i \in 1..40 |-> ByteAt((LaneOf(i) + 1) % 5, (ByteOf(i) + 7) % 8)] \o << >>

\* rho and pi: lane (x, y) goes to (y, 2x + 3y) rotated by its offset.  For
\* the byte at index i: the lane it comes from, the two source bytes it
\* draws on and the factors that shift them into place
RhoPiLane ==
    [i \in 1..STATE_LEN |->
        LET to_x == LaneOf(i) % 5
            to_y == LaneOf(i) \div 5
        IN  ((to_x + 3 * to_y) % 5) + 5 * to_x] \o << >>

RhoPiUpper ==
    [i \in 1..STATE_LEN |->
        ByteAt(RhoPiLane[i], (ByteOf(i) + 8 - (RHO[RhoPiLane[i] + 1] \div 8)) % 8)] \o << >>

RhoPiLower ==
    [i \in 1..STATE_LEN |->
        ByteAt(RhoPiLane[i], (ByteOf(i) + 7 - (RHO[RhoPiLane[i] + 1] \div 8)) % 8)] \o << >>

RhoPiShift == [i \in 1..STATE_LEN |-> Pow2[(RHO[RhoPiLane[i] + 1] % 8) + 1]] \o << >>

RhoPiUnshift == [i \in 1..STATE_LEN |-> Pow2[9 - (RHO[RhoPiLane[i] + 1] % 8)]] \o << >>

\* chi: the index of the same byte in the lane k places on in the row
ChiNext(k) ==
    [i \in 1..STATE_LEN |->
        ByteAt((((LaneOf(i) % 5) + k) % 5) + 5 * (LaneOf(i) \div 5), ByteOf(i))] \o << >>

ChiOne == ChiNext(1)

ChiTwo == ChiNext(2)

\* the parities of the five columns
ThetaC(A) ==
    [i \in 1..40 |-> Xor(Xor(Xor(Xor(A[i], A[i + 40]), A[i + 80]), A[i + 120]), A[i + 160])]
        \o << >>

\* C[x - 1] ^ rot(C[x + 1], 1)
ThetaD(C) ==
    [i \in 1..40 |->
        Xor(C[ThetaLeft[i]],
            ((2 * C[ThetaRight[i]]) % 256) + (C[ThetaRightBelow[i]] \div 128))] \o << >>

Theta(A, D) == [i \in 1..STATE_LEN |-> Xor(A[i], D[((i - 1) % 40) + 1])] \o << >>

RhoPi(T) ==
    [i \in 1..STATE_LEN |->
        ((T[RhoPiUpper[i]] * RhoPiShift[i]) % 256) + (T[RhoPiLower[i]] \div RhoPiUnshift[i])]
        \o << >>

\* chi, then iota with the round constant rc on lane 0
ChiIota(B, rc) ==
    [i \in 1..STATE_LEN |->
        LET chi == Xor(B[i], B[ChiTwo[i]] - And(B[ChiOne[i]], B[ChiTwo[i]]))
        IN  IF i <= 8 THEN Xor(chi, rc[i]) ELSE chi] \o << >>

KeccakRound(A, rc) == ChiIota(RhoPi(Theta(A, ThetaD(ThetaC(A)))), rc)

\* Keccak-f[1600]: rounds round..24 applied to a state of STATE_LEN bytes
RECURSIVE KeccakF(_, _)
KeccakF(A, round) ==
    IF round > 24 \/ Len(A) # STATE_LEN THEN A
    ELSE KeccakF(KeccakRound(A, RC[round]), round + 1)

\* pad10*1 behind the domain bit of Keccak: 0x01, zeros, 0x80 on the last
\* byte of the last block
Pad(bytes) ==
    LET n == RATE - (Len(bytes) % RATE)
    IN  bytes \o [k \in 1..n |-> (IF k = 1 THEN 1 ELSE 0) + (IF k = n THEN 128 ELSE 0)]

\* the block of padded that starts behind byte off, xored into the state
Absorb(A, padded, off) ==
    [i \in 1..STATE_LEN |-> IF i <= RATE THEN Xor(A[i], padded[off + i]) ELSE A[i]] \o << >>

RECURSIVE Sponge(_, _, _)
Sponge(A, padded, off) ==
    IF off >= Len(padded) THEN A
    ELSE Sponge(KeccakF(Absorb(A, padded, off), 1), padded, off + RATE)

\* the first DIGEST_LEN bytes of the state
Squeeze(A) == SubSeq(A, 1, DIGEST_LEN)

Keccak256(bytes) == Squeeze(Sponge([i \in 1..STATE_LEN |-> 0] \o << >>, Pad(bytes), 0))

HEXDIGITS == << "0", "1", "2", "3", "4", "5", "6", "7",
                "8", "9", "a", "b", "c", "d", "e", "f" >>

\* bytes.hex(): two hex digits per byte
hex(bytes) ==
    [i \in 1..(2 * Len(bytes)) |->
        IF i % 2 = 1 THEN HEXDIGITS[(bytes[(i + 1) \div 2] \div 16) + 1]
        ELSE HEXDIGITS[(bytes[i \div 2] % 16) + 1]]

(***************************************************************************)
(* Claim contents, epochs and timestamps of the model, and the texts that  *)
(* are hashed for them.                                                    *)
(***************************************************************************)
ClaimA ==
    [provider |-> << "h", "t", "t", "p" >>, parameters |-> << "{", "}" >>, context |-> << >>]

\* ClaimA with its parameters tampered with
ClaimB ==
    [provider |-> << "h", "t", "t", "p" >>, parameters |-> << "{", "k", "}" >>, context |-> << >>]

ClaimInfos == { ClaimA, ClaimB }

Timestamps == {7, 1731468498}

Epochs == {1, 2}

TimestampS == 1731468498

SeqsUpTo(S, n) == UNION { [1..k -> S] : k \in 0..n }

Quoted(identifier) == << "\"" >> \o identifier \o << "\"" >>

\* provider, parameters and context: short strings, newlines included
FieldStrings == SeqsUpTo({ "k", "\n" }, MaxField)

FnClaimInfos ==
    [provider : FieldStrings, parameters : FieldStrings, context : FieldStrings]

\* short strings without a newline
PlainStrings == SeqsUpTo({ "k" }, MaxField)

\* ClaimInfos whose provider and parameters hold no newline
PlainClaimInfos ==
    [provider : PlainStrings, parameters : PlainStrings, context : FieldStrings]

\* the hash input with the fields run together
identifier_string_unseparated(info) == info.provider \o info.parameters \o info.context

\* the hash input with the context left out
identifier_string_no_context(info) == info.provider \o NL \o info.parameters

\* f"{info.provider}\n{info.parameters}\n{info.context}"
identifier_string(info) == info.provider \o NL \o info.parameters \o NL \o info.context

\* the text hashed for a selection
complete_input_of(state, identifier, timestamp_s) ==
    join(<< identifier,
            str(state.epoch),
            str(state.witnessesRequiredForClaim),
            str(timestamp_s) >>)

\* the identifiers of ClaimInfos
PlainIdentifiers ==
    { << "0", "x" >> \o lower(hex(Keccak256(encode(identifier_string(ci))))) : ci \in ClaimInfos }

\* the texts the model hashes: the hash inputs of the ClaimInfos, and the
\* selector inputs of their identifiers, plain and with quoting artifacts,
\* for the beacon states of the model
HashedTexts ==
    { identifier_string(ci) : ci \in ClaimInfos \cup FnClaimInfos \cup PlainClaimInfos }
        \cup { identifier_string_unseparated(ci) : ci \in FnClaimInfos \cup PlainClaimInfos }
        \cup { identifier_string_no_context(ci) : ci \in FnClaimInfos \cup PlainClaimInfos }
        \cup { complete_input_of([epoch |-> e, witnessesRequiredForClaim |-> req],
                                  identifier, timestamp_s) :
                   e \in Epochs, req \in 0..(MaxPool + 1),
                   identifier \in PlainIdentifiers, timestamp_s \in Timestamps }
        \cup { complete_input_of([epoch |-> e, witnessesRequiredForClaim |-> req],
                                  identifier, TimestampS) :
                   e \in Epochs, req \in 0..MaxRequired,
                   identifier \in { Quoted(plain) : plain \in PlainIdentifiers } }

\* their digests, computed once
Digests == [text \in HashedTexts |-> Keccak256(encode(text))]

\* the digest of text, read from computed when it was computed before
digest_of(computed, text) ==
    IF text \in DOMAIN computed THEN computed[text] ELSE Keccak256(encode(text))

\* Web3.keccak(text=...)
Keccak(text) == digest_of(Digests, text)

get_identifier_from_claim_info(info) ==
    LET string == identifier_string(info)
        hash_bytes == Keccak(string)
    IN  << "0", "x" >> \o lower(hex(hash_bytes))

(***************************************************************************)
(* Witness selection: fetch_witness_list_for_claim.                        *)
(***************************************************************************)
\* int.from_bytes(complete_hash[byte_offset:byte_offset + 4], 'big') % n,
\* reduced byte by byte so that the 32-bit seed never has to be held
random_seed_mod(complete_hash, byte_offset, n) ==
    LET b(k) == complete_hash[byte_offset + k]
    IN  ((((((b(1) % n) * 256 + b(2)) % n) * 256 + b(3)) % n) * 256 + b(4)) % n

\* remove_selected with the overwrite forgotten: only the pop() is done
remove_selected_pop_only(witnesses_left, witness_index) ==
    SubSeq(witnesses_left, 1, Len(witnesses_left) - 1)

\* remove_selected as an order-preserving delete (del witnesses_left[witness_index])
remove_selected_ordered(witnesses_left, witness_index) ==
    SubSeq(witnesses_left, 1, witness_index)
        \o SubSeq(witnesses_left, witness_index + 2, Len(witnesses_left))

\* witnesses_left[witness_index] = witnesses_left[-1]; witnesses_left.pop()
remove_selected(witnesses_left, witness_index) ==
    LET last == witnesses_left[Len(witnesses_left)]
        moved == [witnesses_left EXCEPT ![witness_index + 1] = last]
    IN  SubSeq(moved, 1, Len(moved) - 1)

\* the offset advanced without wrapping around the digest
next_byte_offset_no_wrap(byte_offset, complete_hash) == byte_offset + 4

next_byte_offset(byte_offset, complete_hash) ==
    (byte_offset + 4) % Len(complete_hash)

\* One iteration of the loop on the locals
\* [left, selected, byte_offset]; "err" is set by the ZeroDivisionError of
\* random_seed % len(witnesses_left) on an empty list.
loop_body(complete_hash, loc) ==
    IF Len(loc.left) = 0
    THEN [loc EXCEPT !.err = TRUE]
    ELSE LET witness_index == random_seed_mod(complete_hash, loc.byte_offset, Len(loc.left))
             witness == loc.left[witness_index + 1]
         IN  [left |-> remove_selected(loc.left, witness_index),
              selected |-> Append(loc.selected, witness),
              byte_offset |-> next_byte_offset(loc.byte_offset, complete_hash),
              err |-> FALSE]

RECURSIVE run_loop(_, _, _)
run_loop(complete_hash, loc, remaining) ==
    IF remaining = 0 \/ loc.err THEN loc
    ELSE run_loop(complete_hash, loop_body(complete_hash, loc), remaining - 1)

\* the loop run on complete_hash from the copied list to its last iteration
loop_of(complete_hash, beacon_state) ==
    run_loop(complete_hash,
             [left |-> beacon_state.witnesses, selected |-> << >>,
              byte_offset |-> 0, err |-> FALSE],
             beacon_state.witnessesRequiredForClaim)

\* what the call gives for the locals fin the loop ends with;
\* [ok |-> FALSE] stands for the raised ZeroDivisionError
selection_of(fin) ==
    IF fin.err THEN [ok |-> FALSE, value |-> << >>]
    ELSE [ok |-> TRUE, value |-> fin.selected]

\* a call that returns what it has selected when the working list runs out
fetch_witness_list_for_claim_short(beacon_state, identifier, timestamp_s) ==
    [ok |-> TRUE,
     value |-> loop_of(Keccak(complete_input_of(beacon_state, identifier, timestamp_s)),
                       beacon_state).selected]

\* The whole call.
fetch_witness_list_for_claim(beacon_state, identifier, timestamp_s) ==
    selection_of(loop_of(Keccak(complete_input_of(beacon_state, identifier, timestamp_s)),
                         beacon_state))

(***************************************************************************)
(* Signature verifier: create_sign_data_for_claim,                         *)
(* recover_signers_of_signed_claim, assert_valid_signed_claim.             *)
(*                                                                         *)
(* A signature string of a proof is a record                               *)
(*   [hexok, recoverable, signer, message]:                                *)
(* hexok says whether bytes.fromhex accepts it, recoverable whether        *)
(* recover_message accepts the decoded bytes, signer and message are the   *)
(* checksummed address of the key and the text that was signed.            *)
(***************************************************************************)
\* the payload with the owner as the claim spells it
create_sign_data_for_claim_owner_as_is(data) ==
    join(<< data.identifier, data.owner, str(data.timestampS), str(data.epoch) >>)

create_sign_data_for_claim(data) ==
    LET lines == << data.identifier, lower(data.owner), str(data.timestampS), str(data.epoch) >>
    IN  join(lines)

\* the address recovered when the signature was made over another message
StrangerAddress == << "0", "x", "F", "f", "9" >>

\* w3.eth.account.recover_message(encode_defunct(text=data_str), signature=signature)
recover_message(data_str, signature) ==
    IF signature.message = data_str THEN signature.signer ELSE StrangerAddress

\* [ok |-> FALSE] stands for the exception raised on an unrecoverable signature
recover_signers_of_signed_claim(claim) ==
    LET data_str == create_sign_data_for_claim(claim.claim)
    IN  IF \E i \in 1..Len(claim.signatures) : ~claim.signatures[i].recoverable
        THEN [ok |-> FALSE, value |-> << >>]
        ELSE [ok |-> TRUE,
              value |-> [i \in 1..Len(claim.signatures) |->
                            lower(recover_message(data_str, claim.signatures[i]))]]

\* witnesses_not_seen never emptied: the mutant that accepts any signers
witnesses_not_seen_ignored(expected_witness_addresses, witness_addresses) == {}

\* witnesses_not_seen when recovered addresses outside the expected ones count
\* as a failure too
witnesses_not_seen_symmetric(expected_witness_addresses, witness_addresses) ==
    LET expected == { expected_witness_addresses[i] : i \in 1..Len(expected_witness_addresses) }
        recovered == { witness_addresses[i] : i \in 1..Len(witness_addresses) }
    IN  (expected \ recovered) \cup (recovered \ expected)

\* witnesses_not_seen after the loop over the recovered addresses
witnesses_not_seen(expected_witness_addresses, witness_addresses) ==
    { expected_witness_addresses[i] : i \in 1..Len(expected_witness_addresses) }
        \ { witness_addresses[i] : i \in 1..Len(witness_addresses) }

\* a check that also fails when no witness is expected at all
assert_valid_signed_claim_needs_quorum(claim, expected_witness_addresses) ==
    LET witness_addresses == recover_signers_of_signed_claim(claim)
    IN  IF ~witness_addresses.ok THEN "recover"
        ELSE IF \/ Len(expected_witness_addresses) = 0
                \/ witnesses_not_seen(expected_witness_addresses, witness_addresses.value) # {}
        THEN "threshold"
        ELSE "ok"

\* "ok", or the kind of exception raised
assert_valid_signed_claim(claim, expected_witness_addresses) ==
    LET witness_addresses == recover_signers_of_signed_claim(claim)
    IN  IF ~witness_addresses.ok THEN "recover"
        ELSE IF witnesses_not_seen(expected_witness_addresses, witness_addresses.value) # {}
        THEN "threshold"
        ELSE "ok"

\* the addresses joined into the message of the ProofNotVerifiedError
missing_witnesses(claim, expected_witness_addresses) ==
    witnesses_not_seen(expected_witness_addresses,
                       recover_signers_of_signed_claim(claim).value)

(***************************************************************************)
(* Beacon client: get_contract, fetch_epoch_data, make_beacon,             *)
(* BeaconImpl.get_state.                                                   *)
(*                                                                         *)
(* registry is the on-chain registry, a function from the epochs that      *)
(* exist to their BeaconState; fetchEpoch(0) answers with the latest one.  *)
(***************************************************************************)
DEFAULT_CHAIN_ID == 11155420

CONTRACT_CONFIG == {420, 11155420}

\* [ok, map]: ok is FALSE for the ValueError on an unsupported chain
get_contract(existing_contracts_map, chain_id) ==
    IF chain_id \notin existing_contracts_map
    THEN IF chain_id \notin CONTRACT_CONFIG
         THEN [ok |-> FALSE, map |-> existing_contracts_map]
         ELSE [ok |-> TRUE, map |-> existing_contracts_map \cup {chain_id}]
    ELSE [ok |-> TRUE, map |-> existing_contracts_map]

LatestEpoch(registry) == CHOOSE e \in DOMAIN registry : \A f \in DOMAIN registry : f <= e

\* [ok, state]: ok is FALSE for the ValueError raised when the call fails
\* (net_ok is FALSE) or the response is not an epoch
fetch_epoch_data(registry, epoch_id, net_ok) ==
    IF ~net_ok THEN [ok |-> FALSE, state |-> << >>]
    ELSE IF epoch_id = 0 THEN [ok |-> TRUE, state |-> registry[LatestEpoch(registry)]]
    ELSE IF epoch_id \in DOMAIN registry THEN [ok |-> TRUE, state |-> registry[epoch_id]]
    ELSE [ok |-> FALSE, state |-> << >>]

\* BeaconImpl.get_state: TRUE when self.state is returned without a fetch
get_state_is_held(held_state, epoch_id) == epoch_id = held_state.epoch

\* epoch_id left out by the caller (Optional[int] = None)
None == -1

\* get_state that keeps the state it fetched as the held one
get_state_caching(self_state, registry_now, epoch_id, net_ok) ==
    IF epoch_id = None \/ get_state_is_held(self_state, epoch_id)
    THEN [ok |-> TRUE, state |-> self_state, fetched |-> << >>, held |-> self_state]
    ELSE LET data == fetch_epoch_data(registry_now, epoch_id, net_ok)
         IN  [ok |-> data.ok, state |-> data.state, fetched |-> << epoch_id >>,
              held |-> IF data.ok THEN data.state ELSE self_state]

\* BeaconImpl.get_state as a whole: what it returns ([ok |-> FALSE] when the
\* fetch raises), the epochs it fetched, and self.state afterwards
get_state(self_state, registry_now, epoch_id, net_ok) ==
    IF epoch_id = None \/ get_state_is_held(self_state, epoch_id)
    THEN [ok |-> TRUE, state |-> self_state, fetched |-> << >>, held |-> self_state]
    ELSE LET data == fetch_epoch_data(registry_now, epoch_id, net_ok)
         IN  [ok |-> data.ok, state |-> data.state, fetched |-> << epoch_id >>,
              held |-> self_state]

(***************************************************************************)
(* Verification engine: the parts of verify_proof between awaits.          *)
(***************************************************************************)
MANUAL_VERIFY == << "m", "a", "n", "u", "a", "l", "-", "v", "e", "r", "i", "f", "y" >>

\* the empty-signature guard dropped
signatures_missing_never(proof) == FALSE

\* not proof.signatures
signatures_missing(proof) == Len(proof.signatures) = 0

\* the manual-verify branch never taken
is_manual_verify_never(proof) == FALSE

\* proof.witnesses and proof.witnesses[0].get("url") == "manual-verify"
is_manual_verify(proof) ==
    /\ Len(proof.witnesses) > 0
    /\ proof.witnesses[1].url = MANUAL_VERIFY

\* the comparison dropped
identifier_mismatch_never(calculated_identifier, identifier) == FALSE

\* calculated_identifier != proof.identifier
identifier_mismatch(calculated_identifier, identifier) == calculated_identifier # identifier

\* an except clause that lets ProofNotVerifiedError through
on_exception_reraise(kind) ==
    IF kind \in {"identifier", "threshold"} THEN "ProofNotVerifiedError" ELSE "false"

\* except Exception: return False
on_exception(kind) == "false"

\* lowered_ids_of without the call of lower(): the ids as the registry spells
\* them, a list the code never builds
ids_as_spelled(witness_list) ==
    IF ~witness_list.ok THEN [ok |-> FALSE, value |-> << >>]
    ELSE [ok |-> TRUE,
          value |-> [i \in 1..Len(witness_list.value) |-> witness_list.value[i].id]]

\* [w.id.lower() for w in witness_list]; [ok |-> FALSE] is the exception re-raised
lowered_ids_of(witness_list) ==
    IF ~witness_list.ok THEN [ok |-> FALSE, value |-> << >>]
    ELSE [ok |-> TRUE,
          value |-> [i \in 1..Len(witness_list.value) |-> lower(witness_list.value[i].id)]]

\* witnesses_of_state with the ids left as the registry spells them
witnesses_of_state_raw(state, identifier, timestamp_s) ==
    ids_as_spelled(fetch_witness_list_for_claim(state, identifier, timestamp_s))

\* get_witnesses_for_claim after the state is known: selection and lower-casing;
\* [ok |-> FALSE] is the exception it re-raises
witnesses_of_state(state, identifier, timestamp_s) ==
    lowered_ids_of(fetch_witness_list_for_claim(state, identifier, timestamp_s))

\* verify_proof from the ClaimInfo construction to its return, for the
\* expected witnesses already determined.  Gives the returned value, the kind
\* of exception caught ("none" if none), the proof as the call leaves it and
\* the steps performed.
verify_tail(proof, witnesses) ==
    LET claim_data == [parameters |-> proof.claimData.parameters,
                       provider |-> proof.claimData.provider,
                       context |-> proof.claimData.context]
        calculated_identifier == get_identifier_from_claim_info(claim_data)
        stripped == [proof EXCEPT !.identifier = remove_char(proof.identifier, "\"")]
        signed_claim == [claim |-> stripped.claimData, signatures |-> stripped.signatures]
        checked == assert_valid_signed_claim(signed_claim, witnesses)
    IN  IF identifier_mismatch(calculated_identifier, stripped.identifier)
        THEN [ret |-> on_exception("identifier"), failure |-> "identifier",
              proof |-> stripped, steps |-> << "hash", "compare" >>]
        ELSE IF \E i \in 1..Len(proof.signatures) : ~proof.signatures[i].hexok
        THEN [ret |-> on_exception("decode"), failure |-> "decode",
              proof |-> stripped, steps |-> << "hash", "compare", "decode" >>]
        ELSE IF checked # "ok"
        THEN [ret |-> on_exception(checked), failure |-> checked,
              proof |-> stripped, steps |-> << "hash", "compare", "decode", "recover" >>]
        ELSE [ret |-> "true", failure |-> "none",
              proof |-> stripped, steps |-> << "hash", "compare", "decode", "recover" >>]

\* the selector seeded with the identifier after the quotes were stripped
selector_identifier_stripped(proof) == remove_char(proof.identifier, "\"")

\* the identifier argument of get_witnesses_for_claim: proof.identifier as it
\* is when line 91 runs, before line 104 strips the quotes
selector_identifier(proof) == proof.identifier

\* what the call gives when tail is the outcome of verify_tail for the
\* expected witnesses, reached by the steps before
verified(tail, before, witnesses) ==
    [ret |-> tail.ret, failure |-> tail.failure, proof |-> tail.proof,
     steps |-> before \o tail.steps, witnesses |-> witnesses]

\* the else branch of verify_proof after get_witnesses_for_claim has
\* returned witnesses or raised
verify_selected(proof, witnesses) ==
    IF ~witnesses.ok
    THEN [ret |-> on_exception("selector"), failure |-> "selector",
          proof |-> proof, steps |-> << "select" >>, witnesses |-> << >>]
    ELSE verified(verify_tail(proof, witnesses.value), << "select" >>, witnesses.value)

\* the else branch of verify_proof once the beacon state for the epoch is
\* known: selection, then the rest of the call
verify_with_state(proof, state) ==
    verify_selected(proof, witnesses_of_state(state, selector_identifier(proof),
                                              proof.claimData.timestampS))

\* the manual-verify id brought to lower case before it is expected
manual_witness_id_lowered(proof) == lower(proof.witnesses[1].id)

\* witnesses.append(proof.witnesses[0]["id"])
manual_witness_id(proof) == proof.witnesses[1].id

\* the manual-verify branch and the rest of the call
verify_manual(proof) ==
    verified(verify_tail(proof, << manual_witness_id(proof) >>), << >>,
             << manual_witness_id(proof) >>)

\* a failed fetch swallowed, the call going on with no expected witnesses
verify_beacon_failed_ignored(proof) ==
    verified(verify_tail(proof, << >>), << >>, << >>)

\* get_witnesses_for_claim failing on a fetch
verify_beacon_failed(proof) ==
    [ret |-> on_exception("beacon"), failure |-> "beacon", proof |-> proof,
     steps |-> << >>, witnesses |-> << >>]

\* the list loop catching what an element raises
raised_by_element_caught(ret) == FALSE

\* await verify_proof(single_proof) raising: nothing in the loop catches it
raised_by_element(ret) == ret \notin {"true", "false"}

\* the list loop does not stop at a failing element
stop_on_failure_never(ret) == FALSE

\* if not await verify_proof(single_proof): return False
stop_on_failure(ret) == ret = "false"

(***************************************************************************)
(* Data of the model.                                                      *)
(***************************************************************************)
\* WitnessData number k of a beacon pool; ids mix upper and lower case as
\* checksummed addresses do
WitnessId(k) ==
    << "0", "x", (IF k % 2 = 1 THEN "A" ELSE "b"), HEXDIGITS[(k % 16) + 1],
       (IF k % 3 = 0 THEN "E" ELSE "c") >>

Witness(k) == [id |-> WitnessId(k), url |-> << "h", "t", "t", "p", HEXDIGITS[(k % 16) + 1] >>]

Pool(n) == [k \in 1..n |-> Witness(k)]

\* a pool whose last entry repeats its first
DupPool(n) == [k \in 1..n |-> IF k = n THEN Witness(1) ELSE Witness(k)]

\* the epochs a proof may name: the older one, the latest one, one that does not exist
ProofEpochs == Epochs \cup {3}

Owner == << "0", "x", "A", "b", "3", "F" >>

\* the registry: every epoch asks for req witnesses; the pools alternate
Registry(req) ==
    [e \in Epochs |->
        [epoch |-> e,
         witnesses |-> IF e % 2 = 0 THEN Pool(3) ELSE << Witness(3), Witness(1) >>,
         witnessesRequiredForClaim |-> req,
         nextEpochTimestampS |-> 1000 * e]]

ClaimDataOf(info, epoch) ==
    [provider |-> info.provider, identifier |-> get_identifier_from_claim_info(ClaimA),
     parameters |-> info.parameters, owner |-> Owner, timestampS |-> TimestampS,
     context |-> info.context, epoch |-> epoch]

\* signature strings a proof over claimData may carry
SigBy(k, claimData) ==
    [hexok |-> TRUE, recoverable |-> TRUE, signer |-> WitnessId(k),
     message |-> create_sign_data_for_claim(claimData)]

SigOverOtherText(claimData) ==
    [hexok |-> TRUE, recoverable |-> TRUE, signer |-> WitnessId(1),
     message |-> create_sign_data_for_claim(claimData) \o << "x" >>]

SigNotHex == [hexok |-> FALSE, recoverable |-> FALSE, signer |-> << >>, message |-> << >>]

SigNotRecoverable == [hexok |-> TRUE, recoverable |-> FALSE, signer |-> << >>, message |-> << >>]

SigKinds == { "w1", "w2", "w3", "other_text", "not_hex", "not_recoverable" }

SignatureString(kind, claimData) ==
    CASE kind = "w1" -> SigBy(1, claimData)
      [] kind = "w2" -> SigBy(2, claimData)
      [] kind = "w3" -> SigBy(3, claimData)
      [] kind = "other_text" -> SigOverOtherText(claimData)
      [] kind = "not_hex" -> SigNotHex
      [] OTHER -> SigNotRecoverable

\* proof.witnesses: absent, manual-verify with a lower-case or a checksummed
\* id, or the url of an ordinary witness.  The entries are mappings with the
\* keys "id" and "url", which is how verify_proof reads them (.get("url"),
\* ["id"]) and how the sample proof of example/main.py spells them.
WitnessHints ==
    { << >>,
      << [id |-> lower(WitnessId(1)), url |-> MANUAL_VERIFY] >>,
      << [id |-> WitnessId(1), url |-> MANUAL_VERIFY] >>,
      << [id |-> WitnessId(2), url |-> Witness(2).url] >> }

\* identifier and claim content: matching, matching with quoting artifacts,
\* a tampered parameters field, and a tampered parameters field under a
\* proof.identifier recomputed to match it (claimData.identifier, which the
\* witnesses signed, stays that of ClaimA)
Contents ==
    { [identifier |-> get_identifier_from_claim_info(ClaimA), info |-> ClaimA],
      [identifier |-> Quoted(get_identifier_from_claim_info(ClaimA)), info |-> ClaimA],
      [identifier |-> get_identifier_from_claim_info(ClaimA), info |-> ClaimB],
      [identifier |-> get_identifier_from_claim_info(ClaimB), info |-> ClaimB] }

MkProof(content, epoch, kinds, witnesses) ==
    LET claimData == ClaimDataOf(content.info, epoch)
    IN  [identifier |-> content.identifier,
         claimData |-> claimData,
         signatures |-> [i \in 1..Len(kinds) |-> SignatureString(kinds[i], claimData)],
         witnesses |-> witnesses,
         publicData |-> << >>]

\* the proofs verify_proof is given alone
SingleProofs ==
    { MkProof(content, epoch, kinds, witnesses) :
        content \in Contents,
        epoch \in ProofEpochs,
        kinds \in SeqsUpTo(SigKinds, MaxSigs),
        witnesses \in WitnessHints }

\* the proofs that lists are made of: verifiable by manual-verify (plain and
\* quoted identifier), dependent on the beacon, tampered, and without signatures
ListProofs ==
    { MkProof([identifier |-> get_identifier_from_claim_info(ClaimA), info |-> ClaimA],
              1, << "w1" >>, << [id |-> lower(WitnessId(1)), url |-> MANUAL_VERIFY] >>),
      MkProof([identifier |-> Quoted(get_identifier_from_claim_info(ClaimA)), info |-> ClaimA],
              1, << "w1" >>, << [id |-> lower(WitnessId(1)), url |-> MANUAL_VERIFY] >>),
      MkProof([identifier |-> get_identifier_from_claim_info(ClaimA), info |-> ClaimA],
              2, << "w1", "w2", "w3" >>, << >>),
      MkProof([identifier |-> get_identifier_from_claim_info(ClaimA), info |-> ClaimB],
              1, << "w1" >>, << [id |-> lower(WitnessId(1)), url |-> MANUAL_VERIFY] >>),
      MkProof([identifier |-> get_identifier_from_claim_info(ClaimA), info |-> ClaimA],
              1, << >>, << >>) }

\* the arguments of verify_proof: one proof, or a list of proofs
Arguments ==
    { [is_list |-> FALSE, items |-> << p >>] : p \in SingleProofs }
        \cup { [is_list |-> TRUE, items |-> ps] : ps \in SeqsUpTo(ListProofs, MaxList) }

(***************************************************************************)
(* State.                                                                  *)
(***************************************************************************)
VARIABLES
    \* --- a caller running fetch_witness_list_for_claim on a BeaconState it holds
    beacon_state,        \* the BeaconState object (its witnesses list lives in heap)
    heap,                \* list objects: "state_witnesses" and the working "left"
    left_ref,            \* the list object the local witnesses_left is bound to
    sel_pc,              \* "idle", "loop", "returned", "raised"
    sel_args,            \* arguments of the running or last call
    complete_hash,       \* local complete_hash
    selected_witnesses,  \* local selected_witnesses
    byte_offset,         \* local byte_offset
    loop_i,              \* iterations of the for loop completed
    sel_calls,           \* calls made so far
    sel_log,             \* completed calls: arguments and outcome
    \* --- a call of verify_proof
    registry,               \* the on-chain registry of epochs
    existing_contracts_map, \* chain ids with a cached contract object
    argument,               \* the argument as passed (never changed)
    proofs,                 \* the proof objects of the argument, as they are now
    idx,                    \* the list element being verified (1 for a single proof)
    pc,                     \* "idle", "proof", "make_beacon", "get_state", "done"
    beacon,                 \* state held by the BeaconImpl of the running element
    result,                 \* "none", "true", "false" or the name of the raised error
    outcomes,               \* per element verified so far: ret, failure, witnesses
    events,                 \* steps performed: element, step, epoch fetched, success
    \* --- a caller applying one of the SDK's functions directly
    fn_name,                \* the function last applied ("none" before the first)
    fn_args,                \* its arguments
    fn_result,              \* what it returned or raised
    \* --- two callers running verify_proof on proof objects of their own, sharing
    \*     registry and existing_contracts_map
    calls,                  \* per caller: position, proof passed and as it is now,
                            \* answers its fetches got, result
    schedule,               \* the callers in the order in which they ran a step
    \* --- a call of get_request_url on a ReclaimProofRequest
    request,                \* the fields of the ReclaimProofRequest that the call reads
    url_pc,                 \* "idle", "update_session", "shortener", "done"
    url_result,             \* "none", the kind of URL returned or the error raised
    url_steps,              \* validation, service contacts, link building: step and success
    \* --- a caller of get_contract, the contract objects told apart
    contracts_by_key,       \* existing_contracts_map: chain key -> contract object
    contracts_made,         \* contract objects created so far (they are numbered)
    get_log,                \* the calls made: chain id, outcome, the map before and after
    \* --- schedule_interval_ending on an intervals dict that others clear
    intervals,              \* session id -> task
    cancelled,              \* tasks on which cancel() was called
    timer,                  \* the scheduled coroutine: position, arguments, the task that
                            \* runs it, the error it ended with, intervals when it woke
    on_error_calls,         \* the arguments on_error was invoked with
    clears                  \* clear_interval calls made by others: session id, map before

selVars == << beacon_state, heap, left_ref, sel_pc, sel_args, complete_hash,
              selected_witnesses, byte_offset, loop_i, sel_calls, sel_log >>

engVars == << registry, existing_contracts_map, argument, proofs, idx, pc, beacon,
              result, outcomes, events >>

fnVars == << fn_name, fn_args, fn_result >>

concVars == << calls, schedule >>

urlVars == << request, url_pc, url_result, url_steps >>

cacheVars == << contracts_by_key, contracts_made, get_log >>

timerVars == << intervals, cancelled, timer, on_error_calls, clears >>

vars == << selVars, engVars, fnVars, concVars, urlVars, cacheVars, timerVars >>

\* the variables each part of the model leaves alone
outsideSel == << engVars, fnVars, concVars, urlVars, cacheVars, timerVars >>
outsideEng == << selVars, fnVars, concVars, urlVars, cacheVars, timerVars >>
outsideFn == << selVars, engVars, concVars, urlVars, cacheVars, timerVars >>
outsideConc == << selVars, fnVars, urlVars, cacheVars, timerVars, argument, proofs, idx,
                  pc, beacon, result, outcomes, events >>
outsideUrl == << selVars, engVars, fnVars, concVars, cacheVars, timerVars >>
outsideCache == << selVars, engVars, fnVars, concVars, urlVars, timerVars >>
outsideTimer == << selVars, engVars, fnVars, concVars, urlVars, cacheVars >>

\* a dict with no entry
EmptyDict == [k \in {} |-> 0]

CacheIdle ==
    /\ contracts_by_key = EmptyDict
    /\ contracts_made = 0
    /\ get_log = << >>

NoTimer ==
    [pc |-> "idle", session_id |-> "none", on_error |-> "none", task |-> "none",
     error |-> "none", woke |-> FALSE, woke_with |-> EmptyDict]

TimerIdle ==
    /\ intervals = EmptyDict
    /\ cancelled = {}
    /\ timer = NoTimer
    /\ on_error_calls = << >>
    /\ clears = << >>

NoRequest ==
    [signature |-> "none", requested_proof |-> FALSE, session_id |-> "none",
     options |-> "None"]

UrlIdle ==
    /\ request = NoRequest
    /\ url_pc = "idle"
    /\ url_result = "none"
    /\ url_steps = << >>

Callers == { 1, 2 }

NoCall ==
    [pc |-> "idle", given |-> << >>, proof |-> << >>, responses |-> << >>, result |-> "none"]

ConcIdle ==
    /\ calls = [c \in Callers |-> NoCall]
    /\ schedule = << >>

FnIdle ==
    /\ fn_name = "none"
    /\ fn_args = << >>
    /\ fn_result = << >>

NoBeacon == [epoch |-> 0]

EngIdle ==
    /\ registry = << >>
    /\ existing_contracts_map = {}
    /\ argument = [is_list |-> FALSE, items |-> << >>]
    /\ proofs = << >>
    /\ idx = 0
    /\ pc = "idle"
    /\ beacon = NoBeacon
    /\ result = "none"
    /\ outcomes = << >>
    /\ events = << >>

\* beacon_state.witnesses as the caller sees it
state_witnesses == heap["state_witnesses"]
witnesses_left == heap[left_ref]

NoArgs == [identifier |-> << >>, timestamp_s |-> 0, witnesses |-> << >>]

SelIdentifiers == { get_identifier_from_claim_info(ci) : ci \in ClaimInfos }

SelPools == { Pool(n) : n \in 0..MaxPool } \cup { DupPool(n) : n \in 2..3 }

SelInit ==
    /\ \E pool \in SelPools, req \in 0..(MaxPool + 1), ep \in Epochs :
          /\ beacon_state = [epoch |-> ep, witnessesRequiredForClaim |-> req,
                             nextEpochTimestampS |-> 0]
          /\ heap = [state_witnesses |-> pool, left |-> << >>]
    /\ left_ref = "left"
    /\ sel_pc = "idle"
    /\ sel_args = NoArgs
    /\ complete_hash = << >>
    /\ selected_witnesses = << >>
    /\ byte_offset = 0
    /\ loop_i = 0
    /\ sel_calls = 0
    /\ sel_log = {}
    /\ EngIdle
    /\ FnIdle
    /\ ConcIdle
    /\ UrlIdle
    /\ CacheIdle
    /\ TimerIdle

\* witnesses_left bound to the list of the beacon state itself
list_alias(ref) == ref

\* beacon_state.witnesses.copy(): a fresh list object
list_copy(ref) == "left"

\* byte_offset kept from the previous call instead of being reset
initial_byte_offset_kept(previous) == previous

\* byte_offset = 0
initial_byte_offset(previous) == 0

\* witness.py 40-52: the call up to the loop
SelCall(identifier, timestamp_s) ==
    /\ sel_pc \in {"idle", "returned", "raised"}
    /\ sel_calls < MaxCalls
    /\ sel_calls' = sel_calls + 1
    /\ sel_args' = [identifier |-> identifier, timestamp_s |-> timestamp_s,
                    witnesses |-> state_witnesses]
    /\ complete_hash' = Keccak(complete_input_of(beacon_state, identifier, timestamp_s))
    /\ left_ref' = list_copy("state_witnesses")
    /\ heap' = [heap EXCEPT ![left_ref'] = heap["state_witnesses"]]
    /\ selected_witnesses' = << >>
    /\ byte_offset' = initial_byte_offset(byte_offset)
    /\ loop_i' = 0
    /\ sel_pc' = "loop"
    /\ UNCHANGED << beacon_state, sel_log, outsideSel >>

LogEntry(outcome, value) ==
    [identifier |-> sel_args.identifier, timestamp_s |-> sel_args.timestamp_s,
     epoch |-> beacon_state.epoch, required |-> beacon_state.witnessesRequiredForClaim,
     witnesses |-> sel_args.witnesses, outcome |-> outcome, value |-> value]

\* witness.py 54-67: one iteration of the for loop
SelIterate ==
    /\ sel_pc = "loop"
    /\ loop_i < beacon_state.witnessesRequiredForClaim
    /\ LET loc == loop_body(complete_hash,
                            [left |-> witnesses_left, selected |-> selected_witnesses,
                             byte_offset |-> byte_offset, err |-> FALSE])
       IN  IF loc.err
           THEN /\ sel_pc' = "raised"
                /\ sel_log' = sel_log \cup {LogEntry("raised", << >>)}
                /\ UNCHANGED << heap, selected_witnesses, byte_offset, loop_i >>
           ELSE /\ heap' = [heap EXCEPT ![left_ref] = loc.left]
                /\ selected_witnesses' = loc.selected
                /\ byte_offset' = loc.byte_offset
                /\ loop_i' = loop_i + 1
                /\ UNCHANGED << sel_pc, sel_log >>
    /\ UNCHANGED << beacon_state, left_ref, sel_args, complete_hash, sel_calls, outsideSel >>

\* witness.py 69: return selected_witnesses
SelReturn ==
    /\ sel_pc = "loop"
    /\ loop_i = beacon_state.witnessesRequiredForClaim
    /\ sel_pc' = "returned"
    /\ sel_log' = sel_log \cup {LogEntry("returned", selected_witnesses)}
    /\ UNCHANGED << beacon_state, heap, left_ref, sel_args, complete_hash,
                    selected_witnesses, byte_offset, loop_i, sel_calls, outsideSel >>

SelNext ==
    \/ \E identifier \in SelIdentifiers, timestamp_s \in Timestamps :
          SelCall(identifier, timestamp_s)
    \/ SelIterate
    \/ SelReturn

SelSpec == SelInit /\ [][SelNext]_vars

(***************************************************************************)
(* verify_proof as a state machine.  The call is cut at its awaits of      *)
(* fetch_epoch_data; everything between two awaits is one action.          *)
(***************************************************************************)
SelIdle ==
    /\ beacon_state = [epoch |-> 0, witnessesRequiredForClaim |-> 0, nextEpochTimestampS |-> 0]
    /\ heap = [state_witnesses |-> << >>, left |-> << >>]
    /\ left_ref = "left"
    /\ sel_pc = "idle"
    /\ sel_args = NoArgs
    /\ complete_hash = << >>
    /\ selected_witnesses = << >>
    /\ byte_offset = 0
    /\ loop_i = 0
    /\ sel_calls = 0
    /\ sel_log = {}

Init ==
    /\ SelIdle
    /\ FnIdle
    /\ ConcIdle
    /\ UrlIdle
    /\ CacheIdle
    /\ TimerIdle
    /\ \E req \in 0..MaxRequired : registry = Registry(req)
    /\ existing_contracts_map = {}
    /\ argument = [is_list |-> FALSE, items |-> << >>]
    /\ proofs = << >>
    /\ idx = 0
    /\ pc = "idle"
    /\ beacon = NoBeacon
    /\ result = "none"
    /\ outcomes = << >>
    /\ events = << >>

Event(step, epoch_id, ok) == [idx |-> idx, step |-> step, epoch_id |-> epoch_id, ok |-> ok]

StepEvents(steps) == [i \in 1..Len(steps) |-> Event(steps[i], 0, TRUE)]

\* reclaim.py 73-79: the call is entered; a list is walked from its first element
Call(arg) ==
    /\ pc = "idle"
    /\ argument' = arg
    /\ proofs' = arg.items
    /\ idx' = 1
    /\ IF arg.is_list /\ Len(arg.items) = 0
       THEN pc' = "done" /\ result' = "true"
       ELSE pc' = "proof" /\ result' = "none"
    /\ UNCHANGED << registry, existing_contracts_map, beacon, outcomes, events, outsideEng >>

\* The element has returned or raised: reclaim.py 76-79 for a list, the
\* return or raise itself for a single proof.
Conclude(out, evs) ==
    /\ proofs' = [proofs EXCEPT ![idx] = out.proof]
    /\ outcomes' = Append(outcomes, [ret |-> out.ret, failure |-> out.failure,
                                     witnesses |-> out.witnesses])
    /\ events' = events \o evs
    /\ IF ~argument.is_list \/ raised_by_element(out.ret)
       THEN pc' = "done" /\ result' = out.ret /\ idx' = idx
       ELSE IF stop_on_failure(out.ret)
       THEN pc' = "done" /\ result' = "false" /\ idx' = idx
       ELSE IF idx = Len(proofs)
       THEN pc' = "done" /\ result' = "true" /\ idx' = idx
       ELSE pc' = "proof" /\ result' = "none" /\ idx' = idx + 1

\* reclaim.py 82-93 up to the await in make_beacon; for a manual-verify proof
\* the whole of 82-124
BeginProof ==
    /\ pc = "proof"
    /\ LET proof == proofs[idx]
           contract == get_contract(existing_contracts_map, DEFAULT_CHAIN_ID)
       IN  IF signatures_missing(proof)
           THEN /\ Conclude([ret |-> "SignatureNotFoundError", failure |-> "signatures",
                             proof |-> proof, witnesses |-> << >>], << >>)
                /\ UNCHANGED << existing_contracts_map, beacon >>
           ELSE IF is_manual_verify(proof)
           THEN /\ Conclude(verify_manual(proof), StepEvents(verify_manual(proof).steps))
                /\ UNCHANGED << existing_contracts_map, beacon >>
           ELSE IF ~contract.ok
           THEN /\ Conclude(verify_beacon_failed(proof), << >>)
                /\ UNCHANGED << existing_contracts_map, beacon >>
           ELSE /\ existing_contracts_map' = contract.map
                /\ beacon' = NoBeacon
                /\ pc' = "make_beacon"
                /\ UNCHANGED << proofs, idx, result, outcomes, events >>
    /\ UNCHANGED << registry, argument, outsideEng >>

\* smart_contract.py 88-98 and 100-105: fetch_epoch_data(contract, client)
\* answers make_beacon; get_state returns the held state when the epoch is its
\* own, and the call runs on to its end
MakeBeaconFetch(net_ok) ==
    /\ pc = "make_beacon"
    /\ LET proof == proofs[idx]
           epoch_data == fetch_epoch_data(registry, 0, net_ok)
           fetched == << Event("fetch", 0, epoch_data.ok) >>
       IN  IF ~epoch_data.ok
           THEN /\ Conclude(verify_beacon_failed(proof), fetched)
                /\ UNCHANGED beacon
           ELSE IF get_state_is_held(epoch_data.state, proof.claimData.epoch)
           THEN /\ Conclude(verify_with_state(proof, epoch_data.state),
                            fetched \o StepEvents(verify_with_state(proof, epoch_data.state).steps))
                /\ beacon' = epoch_data.state
           ELSE /\ beacon' = epoch_data.state
                /\ events' = events \o fetched
                /\ pc' = "get_state"
                /\ UNCHANGED << proofs, idx, result, outcomes >>
    /\ UNCHANGED << registry, existing_contracts_map, argument, outsideEng >>

\* smart_contract.py 117-118: fetch_epoch_data(self.contract, client, epoch_id)
\* answers get_state, and the call runs on to its end
GetStateFetch(net_ok) ==
    /\ pc = "get_state"
    /\ LET proof == proofs[idx]
           state == fetch_epoch_data(registry, proof.claimData.epoch, net_ok)
           fetched == << Event("fetch", proof.claimData.epoch, state.ok) >>
       IN  IF ~state.ok
           THEN Conclude(verify_beacon_failed(proof), fetched)
           ELSE Conclude(verify_with_state(proof, state.state),
                         fetched \o StepEvents(verify_with_state(proof, state.state).steps))
    /\ UNCHANGED << registry, existing_contracts_map, argument, beacon, outsideEng >>

\* a caller invokes verify_proof on some argument
Verify == pc = "idle" /\ \E arg \in Arguments : Call(arg)

Next ==
    \/ Verify
    \/ BeginProof
    \/ \E net_ok \in BOOLEAN : MakeBeaconFetch(net_ok)
    \/ \E net_ok \in BOOLEAN : GetStateFetch(net_ok)

Spec == Init /\ [][Next]_vars

(***************************************************************************)
(* Two calls of verify_proof on single proofs, interleaved at the awaits   *)
(* of fetch_epoch_data.  Each caller has a proof object of its own; the    *)
(* registry and the module-level existing_contracts_map are shared.        *)
(***************************************************************************)
\* a cached contract that cannot be used a second time
get_contract_stale(contracts_map, chain_id) ==
    IF chain_id \in contracts_map
    THEN [ok |-> FALSE, map |-> contracts_map]
    ELSE [ok |-> TRUE, map |-> contracts_map \cup {chain_id}]

\* get_contract as make_beacon calls it
make_beacon_contract(contracts_map, chain_id) == get_contract(contracts_map, chain_id)

\* proofs for the two callers: those that lists are made of, and proofs that
\* need the beacon, for an epoch that is the latest, an older or no epoch
ConcProofs ==
    ListProofs
        \cup { MkProof(content, epoch, << "w1", "w3" >>, << >>) :
                 content \in Contents, epoch \in Epochs }
        \cup { MkProof([identifier |-> get_identifier_from_claim_info(ClaimA), info |-> ClaimA],
                       3, << "w1" >>, << >>) }

\* reclaim.py 82-93 up to the await in make_beacon; the whole call when no
\* beacon is needed
ConcCall(c, proof) ==
    /\ calls[c].pc = "idle"
    /\ schedule' = Append(schedule, c)
    /\ LET contract == make_beacon_contract(existing_contracts_map, DEFAULT_CHAIN_ID)
           entered == [calls EXCEPT ![c].given = proof, ![c].proof = proof]
       IN  IF signatures_missing(proof)
           THEN /\ calls' = [entered EXCEPT ![c].pc = "done",
                                            ![c].result = "SignatureNotFoundError"]
                /\ UNCHANGED existing_contracts_map
           ELSE IF is_manual_verify(proof)
           THEN /\ calls' = [entered EXCEPT ![c].pc = "done",
                                            ![c].proof = verify_manual(proof).proof,
                                            ![c].result = verify_manual(proof).ret]
                /\ UNCHANGED existing_contracts_map
           ELSE IF ~contract.ok
           THEN /\ calls' = [entered EXCEPT ![c].pc = "done",
                                            ![c].result = verify_beacon_failed(proof).ret]
                /\ UNCHANGED existing_contracts_map
           ELSE /\ calls' = [entered EXCEPT ![c].pc = "make_beacon"]
                /\ existing_contracts_map' = contract.map
    /\ UNCHANGED << registry, outsideConc >>

\* smart_contract.py 95 answered, then 96, 114-115 and, when the epoch is the
\* held one, the rest of the call
ConcMakeBeaconFetch(c, net_ok) ==
    /\ calls[c].pc = "make_beacon"
    /\ schedule' = Append(schedule, c)
    /\ LET proof == calls[c].proof
           epoch_data == fetch_epoch_data(registry, 0, net_ok)
           answered == [calls EXCEPT ![c].responses = Append(@, net_ok)]
       IN  IF ~epoch_data.ok
           THEN calls' = [answered EXCEPT ![c].pc = "done",
                                          ![c].result = verify_beacon_failed(proof).ret]
           ELSE IF get_state_is_held(epoch_data.state, proof.claimData.epoch)
           THEN calls' = [answered EXCEPT
                             ![c].pc = "done",
                             ![c].proof = verify_with_state(proof, epoch_data.state).proof,
                             ![c].result = verify_with_state(proof, epoch_data.state).ret]
           ELSE calls' = [answered EXCEPT ![c].pc = "get_state"]
    /\ UNCHANGED << registry, existing_contracts_map, outsideConc >>

\* smart_contract.py 118 answered, then the rest of the call
ConcGetStateFetch(c, net_ok) ==
    /\ calls[c].pc = "get_state"
    /\ schedule' = Append(schedule, c)
    /\ LET proof == calls[c].proof
           state == fetch_epoch_data(registry, proof.claimData.epoch, net_ok)
           answered == [calls EXCEPT ![c].responses = Append(@, net_ok)]
       IN  IF ~state.ok
           THEN calls' = [answered EXCEPT ![c].pc = "done",
                                          ![c].result = verify_beacon_failed(proof).ret]
           ELSE calls' = [answered EXCEPT
                             ![c].pc = "done",
                             ![c].proof = verify_with_state(proof, state.state).proof,
                             ![c].result = verify_with_state(proof, state.state).ret]
    /\ UNCHANGED << registry, existing_contracts_map, outsideConc >>

ConcNext ==
    \/ \E c \in Callers, proof \in ConcProofs : ConcCall(c, proof)
    \/ \E c \in Callers, net_ok \in BOOLEAN : ConcMakeBeaconFetch(c, net_ok)
    \/ \E c \in Callers, net_ok \in BOOLEAN : ConcGetStateFetch(c, net_ok)

ConcSpec == Init /\ [][ConcNext]_vars

(***************************************************************************)
(* ReclaimProofRequest.get_request_url, cut at its contacts with the       *)
(* session service and the link shortener.                                 *)
(*                                                                         *)
(* Of the request the call reads: _signature (not set, recovering to the   *)
(* application id, or not), _requested_proof (present or not), _session_id *)
(* (not set, blank, or set) and _options (None, a dict, a dict asking for  *)
(* the app clip, and either dict holding a value json.dumps rejects).      *)
(***************************************************************************)
Signatures == { "none", "valid", "invalid" }

SessionIds == { "none", "blank", "set" }

Options == { "None", "plain", "useAppClip", "plain_unserializable",
             "useAppClip_unserializable" }

Platforms == { "Darwin", "Linux" }

\* answers of the session service to the update: 200 with a message, another
\* status, no answer at all
UpdateAnswers == { "ok", "bad_status", "error" }

Urls == { "share_url", "appclip_url", "short_url", "full_link" }

UrlInit ==
    /\ SelIdle /\ EngIdle /\ FnIdle /\ ConcIdle /\ CacheIdle /\ TimerIdle
    /\ request \in [signature : Signatures, requested_proof : BOOLEAN,
                     session_id : SessionIds, options : Options]
    /\ url_pc = "idle"
    /\ url_result = "none"
    /\ url_steps = << >>

UrlStep(step, ok) == [step |-> step, ok |-> ok]

\* a failed session update that is not noticed
update_session_raises_never(answer) == FALSE

\* update_session raises UpdateSessionError unless the service answered 200
update_session_raises(answer) == answer # "ok"

\* self._options.get("useAppClip")
use_app_clip(options) == options \in { "useAppClip", "useAppClip_unserializable" }

\* json.dumps(template_data) raises TypeError
dumps_raises(options) == options \in { "plain_unserializable", "useAppClip_unserializable" }

\* reclaim.py 488-515 up to the request update_session posts: the steps taken
\* and how this part ends ("post" when the request is sent)
before_update(req) ==
    IF req.signature = "none"
    THEN [ends |-> "SignatureNotFoundError", steps |-> << >>]
    ELSE IF ~req.requested_proof
    THEN [ends |-> "GetRequestUrlError", steps |-> << >>]
    ELSE IF req.signature # "valid"
    THEN [ends |-> "GetRequestUrlError", steps |-> << UrlStep("validate_signature", FALSE) >>]
    ELSE IF req.session_id = "none" \/ req.options = "None" \/ req.session_id = "blank"
    THEN [ends |-> "GetRequestUrlError", steps |-> << UrlStep("validate_signature", TRUE) >>]
    ELSE [ends |-> "post", steps |-> << UrlStep("validate_signature", TRUE) >>]

\* reclaim.py 488-516, session_utils.py 41-48
GetRequestUrl ==
    /\ url_pc = "idle"
    /\ LET part == before_update(request)
       IN  /\ url_steps' = url_steps \o part.steps
           /\ IF part.ends = "post"
              THEN url_pc' = "update_session" /\ url_result' = "none"
              ELSE url_pc' = "done" /\ url_result' = part.ends
    /\ UNCHANGED << request, outsideUrl >>

\* session_utils.py 48-66 and reclaim.py 518-539 up to the shortener's request
UpdateSessionAnswered(answer, platform) ==
    /\ url_pc = "update_session"
    /\ LET updated == << UrlStep("update_session", answer = "ok") >>
       IN  IF update_session_raises(answer)
           THEN /\ url_steps' = url_steps \o updated
                /\ url_pc' = "done" /\ url_result' = "GetRequestUrlError"
           ELSE IF dumps_raises(request.options)
           THEN /\ url_steps' = url_steps \o updated \o << UrlStep("build_link", FALSE) >>
                /\ url_pc' = "done" /\ url_result' = "GetRequestUrlError"
           ELSE IF use_app_clip(request.options)
           THEN /\ url_steps' = url_steps \o updated \o << UrlStep("build_link", TRUE) >>
                /\ url_pc' = "done"
                /\ url_result' = IF platform # "Darwin" THEN "share_url" ELSE "appclip_url"
           ELSE /\ url_steps' = url_steps \o updated \o << UrlStep("build_link", TRUE) >>
                /\ url_pc' = "shortener" /\ url_result' = "none"
    /\ UNCHANGED << request, outsideUrl >>

\* proof_utils.py 49-70 and 81-83: the shortened link, or the full link when
\* the shortener cannot be used
ShortenerAnswered(ok) ==
    /\ url_pc = "shortener"
    /\ url_steps' = Append(url_steps, UrlStep("shortener", ok))
    /\ url_pc' = "done"
    /\ url_result' = IF ok THEN "short_url" ELSE "full_link"
    /\ UNCHANGED << request, outsideUrl >>

UrlNext ==
    \/ GetRequestUrl
    \/ \E answer \in UpdateAnswers, platform \in Platforms :
          UpdateSessionAnswered(answer, platform)
    \/ \E ok \in BOOLEAN : ShortenerAnswered(ok)

UrlSpec == UrlInit /\ [][UrlNext]_vars

(***************************************************************************)
(* The SDK's functions applied directly by a caller, once per behaviour.   *)
(***************************************************************************)
\* the owner as a checksummed address and in lower case
Owners == { Owner, lower(Owner) }

FnClaimData == { [ClaimDataOf(ClaimA, e) EXCEPT !.owner = o] : e \in Epochs, o \in Owners }

\* signatures already decoded to bytes
FnSigKinds == SigKinds \ { "not_hex" }

\* the signatures are the witnesses' signatures over the claim as it was issued
SignedClaims ==
    { [claim |-> cd,
       signatures |-> [i \in 1..Len(kinds) |-> SignatureString(kinds[i], cd)]] :
        cd \in FnClaimData, kinds \in SeqsUpTo(FnSigKinds, MaxSigs) }

ExpectedIds == { lower(WitnessId(1)), lower(WitnessId(2)), WitnessId(1) }

ExpectedLists == SeqsUpTo(ExpectedIds, MaxExpected)

FnInit ==
    SelIdle /\ EngIdle /\ FnIdle /\ ConcIdle /\ UrlIdle /\ CacheIdle /\ TimerIdle

\* proof_utils.py 122-136
ApplyAssertValidSignedClaim ==
    /\ fn_name = "none"
    /\ \E claim \in SignedClaims, expected_witness_addresses \in ExpectedLists :
          LET outcome == assert_valid_signed_claim(claim, expected_witness_addresses)
          IN  /\ fn_args' = [claim |-> claim,
                             expected_witness_addresses |-> expected_witness_addresses]
              /\ fn_result' = [outcome |-> outcome,
                               missing |-> IF outcome = "threshold"
                                           THEN missing_witnesses(claim, expected_witness_addresses)
                                           ELSE {}]
    /\ fn_name' = "assert_valid_signed_claim"
    /\ UNCHANGED outsideFn

\* the epoch ids a caller may ask get_state for: none, the "latest" id 0,
\* the epochs of the registry and one that does not exist
EpochIds == { None, 0 } \cup ProofEpochs

\* smart_contract.py 113-118, on a BeaconImpl made when epoch held_epoch was
\* the latest
ApplyGetState ==
    /\ fn_name = "none"
    /\ \E req \in 0..MaxRequired, held_epoch \in Epochs, epoch_id \in EpochIds,
          net_ok \in BOOLEAN :
          LET self_state == Registry(req)[held_epoch]
          IN  /\ fn_args' = [self_state |-> self_state, registry |-> Registry(req),
                             epoch_id |-> epoch_id, net_ok |-> net_ok]
              /\ fn_result' = get_state(self_state, Registry(req), epoch_id, net_ok)
    /\ fn_name' = "get_state"
    /\ UNCHANGED outsideFn

\* info with at most one of its fields replaced
Variants(info) ==
    { info }
        \cup { [info EXCEPT !.provider = f] : f \in FieldStrings }
        \cup { [info EXCEPT !.parameters = f] : f \in FieldStrings }
        \cup { [info EXCEPT !.context = f] : f \in FieldStrings }

\* witness.py 10-22, applied to two ClaimInfos one after the other
ApplyGetIdentifier ==
    /\ fn_name = "none"
    /\ \E first \in FnClaimInfos :
          \E second \in Variants(first) :
              /\ fn_args' = << first, second >>
              /\ fn_result' =
                    [i \in 1..2 |->
                        [string |-> identifier_string(fn_args'[i]),
                         identifier |-> get_identifier_from_claim_info(fn_args'[i])]]
    /\ fn_name' = "get_identifier_from_claim_info"
    /\ UNCHANGED outsideFn

\* witness.py 10-22, applied to two such ClaimInfos one after the other
ApplyGetIdentifierPlain ==
    /\ fn_name = "none"
    /\ \E first \in PlainClaimInfos, second \in PlainClaimInfos :
          /\ fn_args' = << first, second >>
          /\ fn_result' =
                [i \in 1..2 |->
                    [string |-> identifier_string(fn_args'[i]),
                     identifier |-> get_identifier_from_claim_info(fn_args'[i])]]
    /\ fn_name' = "get_identifier_from_claim_info"
    /\ UNCHANGED outsideFn

\* proof_utils.py 107-120, applied to a signed claim and to the same claim
\* with the owner in the other letter case
ApplyRecoverSigners ==
    /\ fn_name = "none"
    /\ \E claim \in SignedClaims, owner \in Owners :
          /\ fn_args' = << claim, [claim EXCEPT !.claim.owner = owner] >>
          /\ fn_result' =
                [i \in 1..2 |->
                    [data_str |-> create_sign_data_for_claim(fn_args'[i].claim),
                     signers |-> recover_signers_of_signed_claim(fn_args'[i])]]
    /\ fn_name' = "recover_signers_of_signed_claim"
    /\ UNCHANGED outsideFn

\* parameter values: strings, and a value that is not a string
StrValue(text) == [is_str |-> TRUE, val |-> text]

NonStrValue == [is_str |-> FALSE, val |-> "7"]

ParamKeys == { "a", "b", "u", "z" }

\* all dicts with keys from keys, at most n of them, and values from values
Dicts(keys, values, n) ==
    UNION { [ks -> values] : ks \in { x \in SUBSET keys : Cardinality(x) <= n } }

\* self._requested_proof: absent, or the parameters of the provider and the
\* {{...}} names in its url
RequestedProofs ==
    { [present |-> FALSE, url_params |-> {}, parameters |-> << >>] }
        \cup [present : { TRUE },
              url_params : SUBSET { "u" },
              parameters : Dicts({ "a", "b" }, { StrValue(""), StrValue("x") }, 2)]

ParamsDicts == Dicts(ParamKeys, { StrValue("x"), StrValue("y"), NonStrValue }, MaxParams)

\* reclaim.py 642-684
available_params(requested_proof) ==
    DOMAIN requested_proof.parameters \cup requested_proof.url_params

\* dict.update
dict_update(old, new) ==
    [k \in DOMAIN old \cup DOMAIN new |-> IF k \in DOMAIN new THEN new[k] ELSE old[k]]

\* set_params that writes the entries it accepts also when it raises
set_params_partial(requested_proof, params) ==
    LET current_params == available_params(requested_proof)
        accepted == { k \in DOMAIN params : k \in current_params /\ params[k].is_str }
    IN  IF ~requested_proof.present
        THEN [raised |-> "SetParamsError", requested_proof |-> requested_proof]
        ELSE [raised |-> IF current_params = {} \/ accepted # DOMAIN params
                         THEN "SetParamsError" ELSE "none",
              requested_proof |->
                  [requested_proof EXCEPT
                      !.parameters = dict_update(@, [k \in accepted |-> params[k]])]]

\* reclaim.py 359-389: the error raised ("none" if none) and the requested
\* proof afterwards
set_params(requested_proof, params) ==
    LET current_params == available_params(requested_proof)
    IN  IF ~requested_proof.present
        THEN [raised |-> "SetParamsError", requested_proof |-> requested_proof]
        ELSE IF current_params = {}
        THEN [raised |-> "SetParamsError", requested_proof |-> requested_proof]
        ELSE IF \E param \in DOMAIN params :
                    param \notin current_params \/ ~params[param].is_str
        THEN [raised |-> "SetParamsError", requested_proof |-> requested_proof]
        ELSE [raised |-> "none",
              requested_proof |->
                  [requested_proof EXCEPT !.parameters = dict_update(@, params)]]

ApplySetParams ==
    /\ fn_name = "none"
    /\ \E requested_proof \in RequestedProofs, params \in ParamsDicts :
          /\ fn_args' = [requested_proof |-> requested_proof, params |-> params]
          /\ fn_result' = set_params(requested_proof, params)
    /\ fn_name' = "set_params"
    /\ UNCHANGED outsideFn

FnNext ==
    \/ ApplyAssertValidSignedClaim
    \/ ApplyRecoverSigners
    \/ ApplyGetIdentifier
    \/ ApplyGetIdentifierPlain
    \/ ApplyGetState
    \/ ApplySetParams

FnSpec == FnInit /\ [][FnNext]_vars

(***************************************************************************)
(* get_contract with the contract objects told apart: a caller asks for    *)
(* the contracts of chain ids one after the other.                         *)
(***************************************************************************)
RECURSIVE format_x(_)
\* format(n, "x")
format_x(n) ==
    IF n < 0 THEN << "-" >> \o format_x(0 - n)
    ELSE IF n < 16 THEN << HEXDIGITS[n + 1] >>
    ELSE format_x(n \div 16) \o << HEXDIGITS[(n % 16) + 1] >>

\* chain_key = f"0x{chain_id:x}"
chain_key(chain_id) == << "0", "x" >> \o format_x(chain_id)

\* the keys of CONTRACT_CONFIG: "0x1a4" and "0xaa37dc"
CONTRACT_CONFIG_KEYS ==
    { << "0", "x", "1", "a", "4" >>, << "0", "x", "a", "a", "3", "7", "d", "c" >> }

\* existing_contracts_map[chain_key] = contract
dict_set(dict, key, value) ==
    [k \in DOMAIN dict \cup { key } |-> IF k = key THEN value ELSE dict[k]]

\* a contract object created on every call, the cached one replaced
get_contract_object_fresh(contracts_map, made, chain_id) ==
    IF chain_key(chain_id) \notin CONTRACT_CONFIG_KEYS
    THEN [raised |-> "ValueError", value |-> None, map |-> contracts_map, made |-> made]
    ELSE [raised |-> "none", value |-> made + 1,
          map |-> dict_set(contracts_map, chain_key(chain_id), made + 1),
          made |-> made + 1]

\* smart_contract.py 32-46; made counts the objects w3.eth.contract has
\* created, and the object created next is numbered made + 1
get_contract_object(contracts_map, made, chain_id) ==
    IF chain_key(chain_id) \notin DOMAIN contracts_map
    THEN IF chain_key(chain_id) \notin CONTRACT_CONFIG_KEYS
         THEN [raised |-> "ValueError", value |-> None, map |-> contracts_map,
               made |-> made]
         ELSE [raised |-> "none", value |-> made + 1,
               map |-> dict_set(contracts_map, chain_key(chain_id), made + 1),
               made |-> made + 1]
    ELSE [raised |-> "none", value |-> contracts_map[chain_key(chain_id)],
          map |-> contracts_map, made |-> made]

\* chain ids: the two of CONTRACT_CONFIG, and two that are not supported
ChainIds == { 420, 11155420, 1, -420 }

CacheInit ==
    SelIdle /\ EngIdle /\ FnIdle /\ ConcIdle /\ UrlIdle /\ CacheIdle /\ TimerIdle

\* one call of get_contract
GetContract(chain_id) ==
    /\ Len(get_log) < MaxGets
    /\ LET out == get_contract_object(contracts_by_key, contracts_made, chain_id)
       IN  /\ contracts_by_key' = out.map
           /\ contracts_made' = out.made
           /\ get_log' = Append(get_log, [chain_id |-> chain_id, raised |-> out.raised,
                                          value |-> out.value,
                                          before |-> contracts_by_key,
                                          after |-> out.map])
    /\ UNCHANGED outsideCache

CacheNext == \E chain_id \in ChainIds : GetContract(chain_id)

CacheSpec == CacheInit /\ [][CacheNext]_vars

(***************************************************************************)
(* The session timeout: schedule_interval_ending has been called and       *)
(* sleeps, while other coroutines of the event loop call clear_interval    *)
(* on the same intervals dict.  A coroutine runs without interruption from *)
(* one await to the next.                                                  *)
(***************************************************************************)
TimerSessions == { "s1", "s2" }

Tasks == { "t1", "t2" }

\* the task that runs schedule_interval_ending: one of the registered tasks,
\* or a task that no dict holds
TimerTasks == { "t1", "t3" }

\* on_error: a coroutine function that returns, a coroutine function that
\* raises, and a plain function returning None, which is what the annotation
\* Callable[[Exception], None] describes
OnErrorKinds == { "coroutine", "coroutine_raises", "plain" }

IntervalDicts == UNION { [S -> Tasks] : S \in SUBSET TimerSessions }

\* del intervals[session_id]
dict_del(dict, key) == [k \in DOMAIN dict \ { key } |-> dict[k]]

\* helper.py 5-9: [intervals, cancelled]
clear_interval(dict, tasks_cancelled, session_id) ==
    IF session_id \in DOMAIN dict
    THEN [intervals |-> dict_del(dict, session_id),
          cancelled |-> tasks_cancelled \cup { dict[session_id] }]
    ELSE [intervals |-> dict, cancelled |-> tasks_cancelled]

\* await on_error(Exception("Session timed out")): "awaiting" while the
\* coroutine runs, or the error that the call or the await raises
await_on_error(on_error) ==
    CASE on_error = "coroutine" -> "awaiting"
      [] on_error = "coroutine_raises" -> "RuntimeError"
      [] OTHER -> "TypeError"

TimerInit ==
    /\ SelIdle /\ EngIdle /\ FnIdle /\ ConcIdle /\ UrlIdle /\ CacheIdle
    /\ intervals \in IntervalDicts
    /\ cancelled = {}
    /\ \E session_id \in TimerSessions, on_error \in OnErrorKinds, task \in TimerTasks :
          timer = [pc |-> "sleep", session_id |-> session_id, on_error |-> on_error,
                   task |-> task, error |-> "none", woke |-> FALSE,
                   woke_with |-> EmptyDict]
    /\ on_error_calls = << >>
    /\ clears = << >>

\* helper.py 5-9, called by another coroutine
ClearInterval(session_id) ==
    /\ Len(clears) < MaxClears
    /\ LET out == clear_interval(intervals, cancelled, session_id)
       IN  /\ intervals' = out.intervals
           /\ cancelled' = out.cancelled
           /\ clears' = Append(clears, [session_id |-> session_id, woke |-> timer.woke,
                                        before |-> intervals, after |-> out.intervals,
                                        cancelled_before |-> cancelled,
                                        cancelled_after |-> out.cancelled])
    /\ UNCHANGED << timer, on_error_calls, outsideTimer >>

\* helper.py 17-19: asyncio.sleep(10) returns, and the coroutine runs to its
\* end or to the await of on_error
WaitElapses ==
    /\ timer.pc = "sleep"
    /\ timer.task \notin cancelled
    /\ IF timer.session_id \in DOMAIN intervals
       THEN /\ on_error_calls' = Append(on_error_calls, "Session timed out")
            /\ timer' = [timer EXCEPT
                            !.woke = TRUE,
                            !.woke_with = intervals,
                            !.pc = IF await_on_error(timer.on_error) = "awaiting"
                                   THEN "on_error" ELSE "raised",
                            !.error = IF await_on_error(timer.on_error) = "awaiting"
                                      THEN "none" ELSE await_on_error(timer.on_error)]
       ELSE /\ on_error_calls' = on_error_calls
            /\ timer' = [timer EXCEPT !.woke = TRUE, !.woke_with = intervals,
                                      !.pc = "done"]
    /\ UNCHANGED << intervals, cancelled, clears, outsideTimer >>

\* helper.py 19-20: on_error's coroutine returns and clear_interval runs
OnErrorReturns ==
    /\ timer.pc = "on_error"
    /\ timer.task \notin cancelled
    /\ LET out == clear_interval(intervals, cancelled, timer.session_id)
       IN  /\ intervals' = out.intervals
           /\ cancelled' = out.cancelled
    /\ timer' = [timer EXCEPT !.pc = "done"]
    /\ UNCHANGED << on_error_calls, clears, outsideTimer >>

\* the task that runs the coroutine was cancelled: CancelledError is raised
\* at the await it is suspended in (helper.py 17 or 19)
TimerCancelled ==
    /\ timer.pc \in { "sleep", "on_error" }
    /\ timer.task \in cancelled
    /\ timer' = [timer EXCEPT !.pc = "raised", !.error = "CancelledError"]
    /\ UNCHANGED << intervals, cancelled, on_error_calls, clears, outsideTimer >>

TimerNext ==
    \/ \E session_id \in TimerSessions : ClearInterval(session_id)
    \/ WaitElapses
    \/ OnErrorReturns
    \/ TimerCancelled

TimerSpec == TimerInit /\ [][TimerNext]_vars

(***************************************************************************)
(* Properties of the witness selector (checked under SelSpec).             *)
(***************************************************************************)
Range(seq) == { seq[i] : i \in 1..Len(seq) }

NoRepeats(seq) == \A i, j \in 1..Len(seq) : seq[i] = seq[j] => i = j

required == beacon_state.witnessesRequiredForClaim

\* C8: when witnessesRequiredForClaim <= len(witnesses) and the pool entries are
\* pairwise distinct, the call does not fail and returns exactly
\* witnessesRequiredForClaim witnesses, all of them members of the input pool,
\* none of them twice.
Theorem_C8 ==
    (/\ sel_pc \in {"returned", "raised"}
     /\ required <= Len(sel_args.witnesses)
     /\ NoRepeats(sel_args.witnesses))
        => /\ sel_pc = "returned"
           /\ Len(selected_witnesses) = required
           /\ Range(selected_witnesses) \subseteq Range(sel_args.witnesses)
           /\ NoRepeats(selected_witnesses)

Witness_C8 ==
    /\ sel_pc = "returned"
    /\ required >= 3
    /\ Len(sel_args.witnesses) > required
    /\ NoRepeats(sel_args.witnesses)
    /\ Len(selected_witnesses) = required

SameArguments(a, b) ==
    /\ a.identifier = b.identifier
    /\ a.epoch = b.epoch
    /\ a.required = b.required
    /\ a.timestamp_s = b.timestamp_s
    /\ a.witnesses = b.witnesses

\* C9: two completed calls with identical identifier, epoch,
\* witnessesRequiredForClaim, timestampS and ordered witness list have the same
\* outcome and return the same witnesses in the same order, whatever calls were
\* made before them.
Theorem_C9 ==
    \A a, b \in sel_log :
        SameArguments(a, b) => (a.outcome = b.outcome /\ a.value = b.value)

Witness_C9 ==
    /\ sel_calls = 2
    /\ sel_pc = "returned"
    /\ Cardinality(sel_log) = 1
    /\ Len(selected_witnesses) >= 2

\* The reference algorithm of the specification, stated on the iteration number:
\* seed_i is the big-endian value of digest bytes (4*i) mod 32 .. +3.
RefSeedMod(digest, i, n) ==
    LET off == (4 * i) % 32
    IN  (digest[off + 1] * (16777216 % n) + digest[off + 2] * (65536 % n)
            + digest[off + 3] * (256 % n) + digest[off + 4]) % n

RefSwapRemove(pool, index) ==
    [j \in 1..(Len(pool) - 1) |-> IF j = index + 1 THEN pool[Len(pool)] ELSE pool[j]]

\* pool and result after k picks
RECURSIVE RefAfter(_, _, _)
RefAfter(digest, pool0, k) ==
    IF k = 0 THEN [pool |-> pool0, result |-> << >>]
    ELSE LET prev == RefAfter(digest, pool0, k - 1)
             index == RefSeedMod(digest, k - 1, Len(prev.pool))
         IN  [pool |-> RefSwapRemove(prev.pool, index),
              result |-> Append(prev.result, prev.pool[index + 1])]

\* C10: after every iteration the picks made so far and the remaining pool are
\* those of the reference algorithm: pick i is pool[seed_i mod len(pool)] with
\* seed_i read big-endian at offset (4*i) mod 32, followed by a swap-remove.
Theorem_C10 ==
    sel_pc \in {"loop", "returned"} =>
        LET ref == RefAfter(complete_hash, sel_args.witnesses, loop_i)
        IN  /\ selected_witnesses = ref.result
            /\ witnesses_left = ref.pool
            /\ byte_offset = (4 * loop_i) % 32

Witness_C10 ==
    /\ sel_pc = "returned"
    /\ Len(selected_witnesses) > 8
    /\ selected_witnesses # SubSeq(sel_args.witnesses, 1, Len(selected_witnesses))

\* C22: no step of a call changes the beacon state it was given: its
\* witnesses list keeps its elements and their order, and epoch,
\* witnessesRequiredForClaim and nextEpochTimestampS keep their values,
\* whether the call returns or fails.
Theorem_C22 ==
    [][state_witnesses' = state_witnesses /\ beacon_state' = beacon_state]_vars

\* a call has returned three witnesses and used up part of its working list,
\* and the list of the beacon state is the one the call was given
Witness_C22 ==
    /\ sel_pc = "returned"
    /\ Len(selected_witnesses) = 3
    /\ Len(witnesses_left) = Len(sel_args.witnesses) - 3
    /\ Len(witnesses_left) >= 1
    /\ state_witnesses = sel_args.witnesses

CountIn(seq, x) == Cardinality({ i \in 1..Len(seq) : seq[i] = x })

\* C23: after k iterations of a call the selected list has k elements, the
\* working list has len(witnesses) - k elements, the byte offset is
\* (4 * k) mod 32, and every witness occurs in the selected list and the
\* working list together as often as in the witnesses the call was given.
Theorem_C23 ==
    sel_pc \in { "loop", "returned", "raised" } =>
        /\ Len(selected_witnesses) = loop_i
        /\ Len(witnesses_left) = Len(sel_args.witnesses) - loop_i
        /\ byte_offset = (4 * loop_i) % 32
        /\ \A w \in Range(sel_args.witnesses) \cup Range(selected_witnesses)
                      \cup Range(witnesses_left) :
              CountIn(selected_witnesses \o witnesses_left, w) = CountIn(sel_args.witnesses, w)

\* nine iterations done: the offset has wrapped around the digest and the
\* whole pool has moved to the selected list
Witness_C23 ==
    /\ sel_pc = "loop"
    /\ loop_i = 9
    /\ byte_offset = 4
    /\ Len(sel_args.witnesses) = 9
    /\ witnesses_left = << >>
    /\ selected_witnesses # sel_args.witnesses

(***************************************************************************)
(* Properties of verify_proof (checked under Spec).                        *)
(***************************************************************************)
SingleDone == pc = "done" /\ ~argument.is_list

\* the proof as it was passed
Given == argument.items[1]

Unquoted(identifier) == SelectSeq(identifier, LAMBDA c : c # "\"")

Recomputed(proof) ==
    get_identifier_from_claim_info([provider |-> proof.claimData.provider,
                                    parameters |-> proof.claimData.parameters,
                                    context |-> proof.claimData.context])

HasSentinel(proof) ==
    Len(proof.witnesses) >= 1 /\ proof.witnesses[1].url = MANUAL_VERIFY

\* the quorum the selector gives for the registry's state of the proof's epoch
QuorumKnown(proof) ==
    /\ proof.claimData.epoch \in DOMAIN registry
    /\ fetch_witness_list_for_claim(registry[proof.claimData.epoch], proof.identifier,
                                    proof.claimData.timestampS).ok

QuorumIds(proof) ==
    LET quorum == fetch_witness_list_for_claim(registry[proof.claimData.epoch],
                                               proof.identifier,
                                               proof.claimData.timestampS).value
    IN  { lower(quorum[i].id) : i \in 1..Len(quorum) }

WellFormed(proof) ==
    \A i \in 1..Len(proof.signatures) :
        proof.signatures[i].hexok /\ proof.signatures[i].recoverable

\* the lower-cased addresses the signatures recover to
Recovered(proof) ==
    { lower(IF proof.signatures[i].message = create_sign_data_for_claim(proof.claimData)
            THEN proof.signatures[i].signer ELSE StrangerAddress) :
        i \in 1..Len(proof.signatures) }

FetchFailed == \E i \in 1..Len(events) : events[i].step = "fetch" /\ ~events[i].ok

Performed(step) == \E i \in 1..Len(events) : events[i].step = step

\* C1: when verify returns true for a single proof, proof.identifier with the
\* double quotes removed equals the identifier recomputed from claimData's
\* provider, parameters and context; when they differ, verify does not return
\* true, and returns false if the proof carries signatures.
Theorem_C1 ==
    SingleDone =>
        /\ result = "true" => Unquoted(Given.identifier) = Recomputed(Given)
        /\ Unquoted(Given.identifier) # Recomputed(Given) =>
              /\ result # "true"
              /\ Len(Given.signatures) > 0 => result = "false"

Witness_C1 ==
    /\ SingleDone
    /\ result = "true"
    /\ Given.identifier # Unquoted(Given.identifier)
    /\ Unquoted(Given.identifier) = Recomputed(Given)

\* C2: when verify returns true for a single proof, every expected witness
\* address (the manual-verify id, or the lower-cased ids of the quorum selected
\* for the epoch) is among the recovered addresses; if one is missing and the
\* proof carries signatures, verify returns false.
Theorem_C2 ==
    SingleDone =>
        /\ result = "true" =>
              /\ WellFormed(Given)
              /\ IF HasSentinel(Given)
                 THEN Given.witnesses[1].id \in Recovered(Given)
                 ELSE QuorumKnown(Given) /\ QuorumIds(Given) \subseteq Recovered(Given)
        /\ (/\ Len(Given.signatures) > 0
            /\ WellFormed(Given)
            /\ IF HasSentinel(Given)
               THEN Given.witnesses[1].id \notin Recovered(Given)
               ELSE QuorumKnown(Given) /\ ~(QuorumIds(Given) \subseteq Recovered(Given)))
              => result = "false"

Witness_C2 ==
    /\ SingleDone
    /\ result = "true"
    /\ ~HasSentinel(Given)
    /\ Cardinality(QuorumIds(Given)) = 2
    /\ QuorumIds(Given) = Recovered(Given)

\* C3 as claimed: a proof with at least one signature, whose claimData hashes
\* to proof.identifier and whose signatures recover to exactly the quorum
\* selected for the state of claimData.epoch, verifies when no fetch fails.
Claim_C3 ==
    (/\ SingleDone
     /\ Len(Given.signatures) >= 1
     /\ Recomputed(Given) = Given.identifier
     /\ QuorumKnown(Given)
     /\ WellFormed(Given)
     /\ Recovered(Given) = QuorumIds(Given)
     /\ ~FetchFailed)
        => result = "true"

\* C3 amended: the same, for a proof whose witnesses list does not begin with
\* a manual-verify entry.
Theorem_C3 ==
    (/\ SingleDone
     /\ ~HasSentinel(Given)
     /\ Len(Given.signatures) >= 1
     /\ Recomputed(Given) = Given.identifier
     /\ QuorumKnown(Given)
     /\ WellFormed(Given)
     /\ Recovered(Given) = QuorumIds(Given)
     /\ ~FetchFailed)
        => result = "true"

Witness_C3 ==
    /\ SingleDone
    /\ ~HasSentinel(Given)
    /\ Len(Given.signatures) = 2
    /\ Recomputed(Given) = Given.identifier
    /\ QuorumKnown(Given)
    /\ WellFormed(Given)
    /\ Recovered(Given) = QuorumIds(Given)
    /\ ~FetchFailed
    /\ \E i \in 1..Len(events) : events[i].step = "fetch" /\ events[i].epoch_id # 0
    /\ result = "true"

\* C4: a single proof with an empty signatures list makes verify raise
\* SignatureNotFoundError, and nothing else is done for it: no contract is
\* looked up, no epoch fetched, no witness selected, no identifier hashed,
\* compared or rewritten, no signature decoded or recovered.
Theorem_C4 ==
    (SingleDone /\ Len(Given.signatures) = 0) =>
        /\ result = "SignatureNotFoundError"
        /\ events = << >>
        /\ existing_contracts_map = {}
        /\ proofs = argument.items

Witness_C4 ==
    /\ SingleDone
    /\ Len(Given.signatures) = 0
    /\ result = "SignatureNotFoundError"
    /\ ~HasSentinel(Given)
    /\ Given.identifier # Unquoted(Given.identifier)

\* C5: for a single proof with a non-empty signatures list verify returns
\* true or false and never raises; whenever an exception arose in determining
\* the witnesses, comparing the identifier, decoding or recovering the
\* signatures or checking the threshold, it returns false.
Theorem_C5 ==
    (SingleDone /\ Len(Given.signatures) > 0) =>
        /\ result \in {"true", "false"}
        /\ outcomes[1].failure # "none" => result = "false"
        /\ FetchFailed => result = "false"
        /\ ~WellFormed(Given) => result = "false"

Witness_C5 ==
    /\ SingleDone
    /\ Len(Given.signatures) > 0
    /\ outcomes[1].failure = "threshold"
    /\ result = "false"

\* C6: for a proof whose witnesses list begins with a manual-verify entry (and
\* that carries signatures) the expected witnesses are exactly that entry's id,
\* and the call ends without a contract lookup, an epoch fetch or a witness
\* selection; with one signature recovering to that id and a matching
\* identifier it returns true.
Theorem_C6 ==
    (SingleDone /\ HasSentinel(Given) /\ Len(Given.signatures) > 0) =>
        /\ outcomes[1].witnesses = << Given.witnesses[1].id >>
        /\ ~Performed("fetch") /\ ~Performed("select")
        /\ existing_contracts_map = {}
        /\ (/\ Len(Given.signatures) = 1
            /\ WellFormed(Given)
            /\ Recovered(Given) = { Given.witnesses[1].id }
            /\ Unquoted(Given.identifier) = Recomputed(Given))
              => result = "true"

Witness_C6 ==
    /\ SingleDone
    /\ HasSentinel(Given)
    /\ Len(Given.signatures) = 1
    /\ Recovered(Given) = { Given.witnesses[1].id }
    /\ result = "true"
    /\ events # << >>

\* C7: on a list verify takes the elements in order; it returns true only if
\* every element returned true; at the first element that returns false it
\* returns false, and no step is performed for, and nothing written to, any
\* later element.
Theorem_C7 ==
    (pc = "done" /\ argument.is_list) =>
        LET n == Len(outcomes)
        IN  /\ n <= Len(proofs)
            /\ \A k \in 1..(n - 1) : outcomes[k].ret = "true"
            /\ \A i \in 1..Len(events) : events[i].idx <= n
            /\ \A i, j \in 1..Len(events) : i <= j => events[i].idx <= events[j].idx
            /\ \A k \in (n + 1)..Len(proofs) : proofs[k] = argument.items[k]
            /\ result = "true" => n = Len(proofs) /\ \A k \in 1..n : outcomes[k].ret = "true"
            /\ result = "false" => n >= 1 /\ outcomes[n].ret = "false"
            /\ (n >= 1 /\ outcomes[n].ret = "false") => result = "false"

Witness_C7 ==
    /\ pc = "done"
    /\ argument.is_list
    /\ Len(proofs) = 3
    /\ Len(outcomes) = 2
    /\ outcomes[1].ret = "true"
    /\ result = "false"
    /\ argument.items[3] = argument.items[1]

\* C12 as claimed: whenever verify returns true for a single proof, the
\* identifier inside claimData, which the signed payload covers, is the hash
\* of claimData's own provider, parameters and context.
Claim_C12 ==
    (SingleDone /\ result = "true") => Given.claimData.identifier = Recomputed(Given)

\* the lower-cased ids of the reference selection from state, seeded with
\* identifier and timestamp_s
RefExpected(state, identifier, timestamp_s) ==
    LET text == identifier \o NL \o str(state.epoch) \o NL
                    \o str(state.witnessesRequiredForClaim) \o NL \o str(timestamp_s)
        picks == RefAfter(Keccak(text), state.witnesses,
                          state.witnessesRequiredForClaim).result
    IN  [i \in 1..Len(picks) |-> lower(picks[i].id)]

\* C13: for a single proof with signatures and no manual-verify entry, whose
\* epoch exists with enough witnesses and whose fetches succeed, the expected
\* witnesses are the lower-cased ids selected from the registry's state of
\* claimData.epoch with proof.identifier as the caller passed it and
\* claimData.timestampS; only the latest epoch and that epoch are fetched.
Theorem_C13 ==
    (/\ SingleDone
     /\ ~HasSentinel(Given)
     /\ Len(Given.signatures) > 0)
        => /\ \A i \in 1..Len(events) :
                 events[i].step = "fetch" => events[i].epoch_id \in {0, Given.claimData.epoch}
           /\ (/\ ~FetchFailed
               /\ Given.claimData.epoch \in DOMAIN registry
               /\ registry[Given.claimData.epoch].witnessesRequiredForClaim
                     <= Len(registry[Given.claimData.epoch].witnesses))
                 => /\ Performed("select")
                    /\ outcomes[1].witnesses =
                          RefExpected(registry[Given.claimData.epoch], Given.identifier,
                                      Given.claimData.timestampS)

\* a quoted identifier, for which stripping the quotes would change the selection
Witness_C13 ==
    /\ SingleDone
    /\ ~HasSentinel(Given)
    /\ Len(Given.signatures) > 0
    /\ Given.identifier # Unquoted(Given.identifier)
    /\ Performed("select")
    /\ Given.claimData.epoch = 1
    /\ Len(outcomes[1].witnesses) >= 1
    /\ outcomes[1].witnesses #
          RefExpected(registry[1], Unquoted(Given.identifier), Given.claimData.timestampS)
    /\ \E i \in 1..Len(outcomes[1].witnesses) :
          outcomes[1].witnesses[i] \notin { registry[1].witnesses[j].id : j \in 1..2 }

\* C14 as claimed: when a call of verify has returned or raised, every proof
\* object it was given has in every field (identifier, claimData, signatures,
\* witnesses, publicData) the value it had when the call was made.
Claim_C14 ==
    pc = "done" => proofs = argument.items

FetchIndices == { i \in 1..Len(events) : events[i].step = "fetch" }

\* C16: a call of verify on a single proof makes at most two fetches, the
\* first when the beacon is made (epoch 0, the latest) and the second for
\* another epoch; a failed fetch is the last thing the call does, and the
\* call has then returned false.
Theorem_C16 ==
    ~argument.is_list =>
        /\ Cardinality(FetchIndices) <= 2
        /\ \A i, j \in FetchIndices :
              i < j => events[i].epoch_id = 0 /\ events[i].ok /\ events[j].epoch_id # 0
        /\ \A i \in FetchIndices :
              ~events[i].ok => i = Len(events) /\ pc = "done" /\ result = "false"

\* the fetch of the historical epoch fails after the beacon was made
Witness_C16 ==
    /\ SingleDone
    /\ Len(events) = 2
    /\ events[1].step = "fetch" /\ events[1].ok
    /\ events[2].step = "fetch" /\ ~events[2].ok
    /\ events[2].epoch_id = 1
    /\ result = "false"

\* the state of the proof's epoch asks for more witnesses than it has
Oversubscribed(proof) ==
    /\ proof.claimData.epoch \in DOMAIN registry
    /\ registry[proof.claimData.epoch].witnessesRequiredForClaim
          > Len(registry[proof.claimData.epoch].witnesses)

\* C24: when the state fetched for a proof's epoch requires more witnesses
\* than it holds, the selection loop stops with an error exactly when its
\* working list is empty, having picked every witness once; no quorum comes
\* out of it, nothing after the selection is done, and verify returns false.
Theorem_C24 ==
    (/\ SingleDone
     /\ ~HasSentinel(Given)
     /\ Len(Given.signatures) > 0
     /\ ~FetchFailed
     /\ Oversubscribed(Given))
        => LET state == registry[Given.claimData.epoch]
               fin == run_loop(Keccak(complete_input_of(state, Given.identifier,
                                                        Given.claimData.timestampS)),
                               [left |-> state.witnesses, selected |-> << >>,
                                byte_offset |-> 0, err |-> FALSE],
                               state.witnessesRequiredForClaim)
           IN  /\ fin.err
               /\ fin.left = << >>
               /\ Len(fin.selected) = Len(state.witnesses)
               /\ result = "false"
               /\ outcomes[1].witnesses = << >>
               /\ ~Performed("hash") /\ ~Performed("recover")

\* three witnesses required of an epoch that has two, for a proof signed by
\* just those two
Witness_C24 ==
    /\ SingleDone
    /\ ~HasSentinel(Given)
    /\ ~FetchFailed
    /\ Oversubscribed(Given)
    /\ Given.claimData.epoch = 1
    /\ Recomputed(Given) = Given.identifier
    /\ Recovered(Given) = { lower(WitnessId(1)), lower(WitnessId(3)) }
    /\ result = "false"

\* C25: when the state of the proof's epoch requires no witness, verify
\* expects none and returns true for every proof (with signatures, without a
\* manual-verify entry, its fetches answered) whose identifier matches the
\* recomputed one and whose signatures decode and recover, whatever
\* addresses they recover to.
Theorem_C25 ==
    (/\ SingleDone
     /\ ~HasSentinel(Given)
     /\ Len(Given.signatures) > 0
     /\ ~FetchFailed
     /\ Given.claimData.epoch \in DOMAIN registry
     /\ registry[Given.claimData.epoch].witnessesRequiredForClaim = 0
     /\ Unquoted(Given.identifier) = Recomputed(Given)
     /\ WellFormed(Given))
        => /\ outcomes[1].witnesses = << >>
           /\ result = "true"

\* accepted on the signature of a stranger alone
Witness_C25 ==
    /\ SingleDone
    /\ ~HasSentinel(Given)
    /\ registry[1].witnessesRequiredForClaim = 0
    /\ Given.claimData.epoch = 1
    /\ Len(Given.signatures) = 1
    /\ Recovered(Given) = { lower(StrangerAddress) }
    /\ result = "true"

\* C26: on the manual-verify path the id is expected as the proof spells it,
\* while the recovered addresses are lower-case: verify returns true only if
\* the id is, character for character, the lower-case address of a signer,
\* and an id with an upper-case hex digit never verifies.
Theorem_C26 ==
    (SingleDone /\ HasSentinel(Given)) =>
        /\ outcomes[1].witnesses \in { << >>, << Given.witnesses[1].id >> }
        /\ result = "true" =>
              /\ WellFormed(Given)
              /\ \E address \in Recovered(Given) : Given.witnesses[1].id = address
              /\ Given.witnesses[1].id = lower(Given.witnesses[1].id)
        /\ Given.witnesses[1].id # lower(Given.witnesses[1].id) => result # "true"

\* a checksummed id refused although its owner signed the claim
Witness_C26 ==
    /\ SingleDone
    /\ HasSentinel(Given)
    /\ Given.witnesses[1].id # lower(Given.witnesses[1].id)
    /\ Len(Given.signatures) = 1
    /\ WellFormed(Given)
    /\ Recovered(Given) = { lower(Given.witnesses[1].id) }
    /\ Unquoted(Given.identifier) = Recomputed(Given)
    /\ result = "false"

\* C28: in a list, the missing-signatures error of an element without
\* signatures reaches the caller exactly when every element before it returned
\* true; when an earlier element returned false, verify returns false and
\* the element without signatures is never reached: no outcome, no step and
\* no write for it.
Theorem_C28 ==
    (pc = "done" /\ argument.is_list) =>
        \A k \in 1..Len(argument.items) :
            Len(argument.items[k].signatures) = 0 =>
                LET n == Len(outcomes)
                    verified_before ==
                        \A j \in 1..(k - 1) : j <= n /\ outcomes[j].ret = "true"
                    failed_before ==
                        \E j \in 1..(k - 1) : j <= n /\ outcomes[j].ret = "false"
                IN  /\ (n = k /\ result = "SignatureNotFoundError") <=> verified_before
                    /\ failed_before =>
                          /\ result = "false"
                          /\ n < k
                          /\ \A i \in 1..Len(events) : events[i].idx < k
                          /\ proofs[k] = argument.items[k]

\* the error of the third element, after two elements that verified
Witness_C28 ==
    /\ pc = "done"
    /\ argument.is_list
    /\ Len(argument.items) = 3
    /\ Len(argument.items[3].signatures) = 0
    /\ Len(outcomes) = 3
    /\ outcomes[1].ret = "true" /\ outcomes[2].ret = "true"
    /\ Performed("fetch")
    /\ result = "SignatureNotFoundError"

(***************************************************************************)
(* Properties of interleaved calls (checked under ConcSpec).               *)
(***************************************************************************)
\* what verify_proof gives for proof when it is the only call ever made and
\* its fetches are answered as in responses
Alone(proof, responses) ==
    IF Len(proof.signatures) = 0 THEN "SignatureNotFoundError"
    ELSE IF HasSentinel(proof) THEN verify_manual(proof).ret
    ELSE IF responses = << >> THEN "no fetch answered"
    ELSE LET first == fetch_epoch_data(registry, 0, responses[1])
         IN  IF ~first.ok THEN "false"
             ELSE IF first.state.epoch = proof.claimData.epoch
             THEN verify_with_state(proof, first.state).ret
             ELSE LET second == fetch_epoch_data(registry, proof.claimData.epoch, responses[2])
                  IN  IF ~second.ok THEN "false"
                      ELSE verify_with_state(proof, second.state).ret

\* C19: whatever the order in which two calls on proof objects of their own
\* take their steps, each call that has ended gave what it gives when run
\* alone with the same answers to its fetches.
Theorem_C19 ==
    \A c \in Callers :
        calls[c].pc = "done" => calls[c].result = Alone(calls[c].given, calls[c].responses)

\* both calls fetched twice, taking turns, and ended differently
Witness_C19 ==
    /\ schedule = << 1, 2, 1, 2, 1, 2 >>
    /\ calls[1].result = "true"
    /\ calls[2].result = "false"
    /\ calls[2].responses = << TRUE, TRUE >>
    /\ calls[1].given.identifier # calls[1].proof.identifier

(***************************************************************************)
(* Properties of get_request_url (checked under UrlSpec).                  *)
(***************************************************************************)
StepAt(i, step, ok) == url_steps[i].step = step /\ url_steps[i].ok = ok

\* C20: without a signature the call raises SignatureNotFoundError and no
\* service is contacted; with one it never raises that error, nothing is
\* returned before the call has ended, a URL is returned only after the
\* signature was validated and, later, the session update succeeded, and when
\* the validation, the session update or the building of the link failed the
\* call raises GetRequestUrlError.
Theorem_C20 ==
    /\ url_pc # "done" => url_result = "none"
    /\ url_pc = "done" =>
          /\ url_result \in Urls \cup { "SignatureNotFoundError", "GetRequestUrlError" }
          /\ request.signature = "none" <=> url_result = "SignatureNotFoundError"
          /\ url_result = "SignatureNotFoundError" => url_steps = << >>
          /\ url_result \in Urls =>
                \E i, j \in 1..Len(url_steps) :
                    /\ i < j
                    /\ StepAt(i, "validate_signature", TRUE)
                    /\ StepAt(j, "update_session", TRUE)
          /\ (\E i \in 1..Len(url_steps) :
                  /\ url_steps[i].step \in { "validate_signature", "update_session", "build_link" }
                  /\ ~url_steps[i].ok)
                => url_result = "GetRequestUrlError"

\* the shortened link, returned after validation, session update and link building
Witness_C20 ==
    /\ url_pc = "done"
    /\ url_result = "short_url"
    /\ Len(url_steps) = 4
    /\ StepAt(1, "validate_signature", TRUE)
    /\ StepAt(2, "update_session", TRUE)
    /\ StepAt(4, "shortener", TRUE)

(***************************************************************************)
(* Properties of the functions applied directly (checked under FnSpec).    *)
(***************************************************************************)
\* C11: when every signature can be recovered, assert_valid_signed_claim
\* succeeds if and only if every expected address is among the recovered
\* ones, whatever else was recovered and however often; otherwise it raises
\* ProofNotVerifiedError naming exactly the expected addresses not recovered.
Theorem_C11 ==
    (/\ fn_name = "assert_valid_signed_claim"
     /\ \A i \in 1..Len(fn_args.claim.signatures) : fn_args.claim.signatures[i].recoverable)
        => LET expected == Range(fn_args.expected_witness_addresses)
               recovered == Recovered([signatures |-> fn_args.claim.signatures,
                                       claimData |-> fn_args.claim.claim])
           IN  /\ fn_result.outcome = "ok" <=> expected \subseteq recovered
               /\ fn_result.outcome # "ok" =>
                     /\ fn_result.outcome = "threshold"
                     /\ fn_result.missing = expected \ recovered

\* success with an address recovered that nobody expected
Witness_C11 ==
    /\ fn_name = "assert_valid_signed_claim"
    /\ fn_result.outcome = "ok"
    /\ Len(fn_args.claim.signatures) = 2
    /\ Range(fn_args.expected_witness_addresses) # {}
    /\ \E a \in Recovered([signatures |-> fn_args.claim.signatures,
                            claimData |-> fn_args.claim.claim]) :
          a \notin Range(fn_args.expected_witness_addresses)

\* C15: get_state returns the held state without any fetch when the epoch is
\* left out or is the held state's epoch; for any other epoch it fetches
\* exactly that epoch once and returns what the fetch gave (the registry's
\* state of that epoch, the latest one for epoch 0); the held state is the same
\* afterwards in either case.
Theorem_C15 ==
    fn_name = "get_state" =>
        LET held == fn_args.self_state
            reg == fn_args.registry
            e == fn_args.epoch_id
        IN  /\ fn_result.held = held
            /\ IF e = None \/ e = held.epoch
               THEN fn_result.ok /\ fn_result.state = held /\ fn_result.fetched = << >>
               ELSE /\ fn_result.fetched = << e >>
                    /\ (fn_args.net_ok /\ e \in DOMAIN reg) =>
                          fn_result.ok /\ fn_result.state = reg[e]
                    /\ (fn_args.net_ok /\ e = 0) =>
                          /\ fn_result.ok
                          /\ fn_result.state \in { reg[x] : x \in DOMAIN reg }
                          /\ \A x \in DOMAIN reg : x <= fn_result.state.epoch
                    /\ (~fn_args.net_ok \/ e \notin DOMAIN reg \cup {0}) => ~fn_result.ok

\* a historical epoch fetched by a beacon holding the latest one
Witness_C15 ==
    /\ fn_name = "get_state"
    /\ fn_args.self_state.epoch = 2
    /\ fn_args.epoch_id = 1
    /\ fn_result.ok
    /\ fn_result.state.epoch = 1
    /\ fn_result.state # fn_args.self_state
    /\ fn_result.fetched = << 1 >>

DifferingFields(a, b) ==
    { f \in { "provider", "parameters", "context" } : a[f] # b[f] }

\* C17: the same (provider, parameters, context) gives the same hash input
\* and the same identifier; the hash input is the three fields joined by
\* newlines; two triples that differ in exactly one field have different
\* hash inputs, and with them different identifiers.
Theorem_C17 ==
    fn_name = "get_identifier_from_claim_info" =>
        LET a == fn_args[1]
            b == fn_args[2]
        IN  /\ \A i \in 1..2 :
                  fn_result[i].string
                      = join(<< fn_args[i].provider, fn_args[i].parameters, fn_args[i].context >>)
            /\ a = b => fn_result[1] = fn_result[2]
            /\ Cardinality(DifferingFields(a, b)) = 1 =>
                  /\ fn_result[1].string # fn_result[2].string
                  /\ fn_result[1].identifier # fn_result[2].identifier

\* only the context differs, next to fields that hold newlines themselves
Witness_C17 ==
    /\ fn_name = "get_identifier_from_claim_info"
    /\ DifferingFields(fn_args[1], fn_args[2]) = { "context" }
    /\ fn_args[1].parameters = << "\n" >>
    /\ fn_args[1].context = << "\n" >>
    /\ fn_args[2].context = << "k" >>
    /\ fn_result[1].string # fn_result[2].string
    /\ fn_result[1].identifier # fn_result[2].identifier

NoNewline(text) == \A i \in 1..Len(text) : text[i] # "\n"

\* C27: two different triples (provider, parameters, context) whose providers
\* and parameters hold no newline never have the same hash input, whatever
\* their contexts hold; their identifiers are the hashes of those inputs and
\* differ as well.
Theorem_C27 ==
    fn_name = "get_identifier_from_claim_info" =>
        LET a == fn_args[1]
            b == fn_args[2]
        IN  (/\ NoNewline(a.provider) /\ NoNewline(a.parameters)
             /\ NoNewline(b.provider) /\ NoNewline(b.parameters)
             /\ a # b)
                => /\ fn_result[1].string # fn_result[2].string
                   /\ \A i \in 1..2 :
                         fn_result[i].identifier
                             = << "0", "x" >> \o lower(hex(Keccak(fn_result[i].string)))
                   /\ fn_result[1].identifier # fn_result[2].identifier

\* provider and parameters differ and the contexts hold a newline; run
\* together, the fields of the two triples would spell the same text
Witness_C27 ==
    /\ fn_name = "get_identifier_from_claim_info"
    /\ fn_args[1] = [provider |-> << "k" >>, parameters |-> << >>,
                     context |-> << "\n" >>]
    /\ fn_args[2] = [provider |-> << >>, parameters |-> << "k" >>,
                     context |-> << "\n" >>]
    /\ fn_result[1].string # fn_result[2].string
    /\ fn_result[1].identifier # fn_result[2].identifier

\* identifier, lowercase(owner), timestampS, epoch joined by newlines
RefPayload(data) ==
    data.identifier \o NL \o lower(data.owner) \o NL \o str(data.timestampS)
        \o NL \o str(data.epoch)

\* C18: for a signed claim whose signatures can all be recovered,
\* recover_signers_of_signed_claim returns one address per signature, in the
\* order of the signatures, each the lower-cased address recovered over the
\* payload identifier, lowercase(owner), timestampS, epoch; two claims that
\* differ only in the letter case of the owner have the same payload and the
\* same result.
Theorem_C18 ==
    fn_name = "recover_signers_of_signed_claim" =>
        /\ \A i \in 1..2 :
              LET signatures == fn_args[i].signatures
                  payload == RefPayload(fn_args[i].claim)
                  signers == fn_result[i].signers
              IN  /\ fn_result[i].data_str = payload
                  /\ (\A j \in 1..Len(signatures) : signatures[j].recoverable) =>
                        /\ signers.ok
                        /\ Len(signers.value) = Len(signatures)
                        /\ \A j \in 1..Len(signatures) :
                              /\ signers.value[j] =
                                    lower(IF signatures[j].message = payload
                                          THEN signatures[j].signer ELSE StrangerAddress)
                              /\ signers.value[j] = lower(signers.value[j])
        /\ fn_result[1] = fn_result[2]

\* a checksummed and a lower-case owner, two witnesses signing in the order 2, 1
Witness_C18 ==
    /\ fn_name = "recover_signers_of_signed_claim"
    /\ fn_args[1].claim.owner # fn_args[2].claim.owner
    /\ fn_args[1].claim.owner # lower(fn_args[1].claim.owner)
    /\ fn_result[1].signers.ok
    /\ fn_result[1].signers.value = << lower(WitnessId(2)), lower(WitnessId(1)) >>
    /\ fn_result[2].signers.value = << lower(WitnessId(2)), lower(WitnessId(1)) >>

\* C21: set_params raises SetParamsError and leaves the requested proof as it
\* was when no requested proof is present, when some key of params is not an
\* available parameter (a key of the parameters or a name in the url) or when
\* some value is not a string; it writes anything only when every entry is
\* valid, and then the parameters hold every entry of params and are
\* otherwise as before.
Theorem_C21 ==
    fn_name = "set_params" =>
        LET before == fn_args.requested_proof
            params == fn_args.params
            available == DOMAIN before.parameters \cup before.url_params
            valid == \A k \in DOMAIN params : k \in available /\ params[k].is_str
        IN  /\ (~before.present \/ ~valid) =>
                  /\ fn_result.raised = "SetParamsError"
                  /\ fn_result.requested_proof = before
            /\ fn_result.raised # "none" =>
                  /\ fn_result.raised = "SetParamsError"
                  /\ fn_result.requested_proof = before
            /\ fn_result.raised = "none" =>
                  /\ before.present /\ valid
                  /\ \A k \in DOMAIN params : fn_result.requested_proof.parameters[k] = params[k]
                  /\ \A k \in DOMAIN before.parameters \ DOMAIN params :
                        fn_result.requested_proof.parameters[k] = before.parameters[k]
                  /\ DOMAIN fn_result.requested_proof.parameters
                        = DOMAIN before.parameters \cup DOMAIN params
            /\ (before.present /\ valid /\ available # {}) => fn_result.raised = "none"

\* one valid and one invalid entry: nothing is written
Witness_C21 ==
    /\ fn_name = "set_params"
    /\ fn_args.requested_proof.present
    /\ DOMAIN fn_args.params = { "a", "z" }
    /\ "a" \in DOMAIN fn_args.requested_proof.parameters
    /\ fn_args.params["a"] # fn_args.requested_proof.parameters["a"]
    /\ fn_args.params["a"].is_str
    /\ fn_result.raised = "SetParamsError"
    /\ fn_result.requested_proof = fn_args.requested_proof


(***************************************************************************)
(* Properties of the contract cache (checked under CacheSpec).             *)
(***************************************************************************)
SupportedChain(chain_id) == chain_id \in { 420, 11155420 }

\* the first call of the log made with chain_id
FirstGet(chain_id) ==
    CHOOSE i \in 1..Len(get_log) :
        /\ get_log[i].chain_id = chain_id
        /\ \A j \in 1..(i - 1) : get_log[j].chain_id # chain_id

\* C29: after any sequence of get_contract calls the cache holds one contract
\* object per supported chain asked for; a supported chain id yields the
\* object that the first call for that chain created; no call replaces or
\* removes an entry; a call with an unsupported chain id raises ValueError
\* and leaves the cache as it was.
Theorem_C29 ==
    /\ Cardinality(DOMAIN contracts_by_key) = contracts_made
    /\ \A k1, k2 \in DOMAIN contracts_by_key :
          contracts_by_key[k1] = contracts_by_key[k2] => k1 = k2
    /\ \A i \in 1..Len(get_log) :
          LET call == get_log[i]
          IN  /\ \A k \in DOMAIN call.before :
                    k \in DOMAIN call.after /\ call.after[k] = call.before[k]
              /\ IF SupportedChain(call.chain_id)
                 THEN /\ call.raised = "none"
                      /\ call.value = get_log[FirstGet(call.chain_id)].value
                      /\ call.value \notin { call.before[k] : k \in DOMAIN call.before }
                            <=> i = FirstGet(call.chain_id)
                 ELSE /\ call.raised = "ValueError"
                      /\ call.after = call.before

\* both chains asked for twice, around a call that raised
Witness_C29 ==
    /\ Len(get_log) = 4
    /\ get_log[1].chain_id = 420 /\ get_log[1].value = 1
    /\ get_log[2].chain_id = 1 /\ get_log[2].raised = "ValueError"
    /\ get_log[3].chain_id = 11155420 /\ get_log[3].value = 2
    /\ get_log[4].chain_id = 420 /\ get_log[4].value = 1
    /\ DOMAIN contracts_by_key = CONTRACT_CONFIG_KEYS


(***************************************************************************)
(* Properties of the session timeout (checked under TimerSpec).            *)
(***************************************************************************)
\* the session of the timeout was registered when the wait elapsed
RegisteredAtWake == timer.woke /\ timer.session_id \in DOMAIN timer.woke_with

\* another coroutine removed the session of the timeout before the wait elapsed
ClearedBeforeWake ==
    \E i \in 1..Len(clears) :
        /\ ~clears[i].woke
        /\ clears[i].session_id = timer.session_id
        /\ timer.session_id \in DOMAIN clears[i].before

\* C30 as claimed: when the wait elapses on_error is invoked, once and with
\* the timeout error, exactly if the session is registered at that moment,
\* and once the coroutine has ended the session's task is cancelled and the
\* session removed; if clear_interval removed the session before the wait
\* elapsed, on_error is not invoked and the coroutine leaves intervals as it
\* found it; clear_interval on a session id that is not registered changes
\* nothing.
Claim_C30 ==
    /\ Len(on_error_calls) <= 1
    /\ \A i \in 1..Len(on_error_calls) : on_error_calls[i] = "Session timed out"
    /\ ~timer.woke => on_error_calls = << >>
    /\ timer.woke => (Len(on_error_calls) = 1 <=> RegisteredAtWake)
    /\ (RegisteredAtWake /\ timer.pc \in { "done", "raised" }) =>
          /\ timer.session_id \notin DOMAIN intervals
          /\ timer.woke_with[timer.session_id] \in cancelled
    /\ (timer.woke /\ ClearedBeforeWake) =>
          /\ on_error_calls = << >>
          /\ timer.pc = "done"
          /\ (\A i \in 1..Len(clears) : ~clears[i].woke) => intervals = timer.woke_with
    /\ \A i \in 1..Len(clears) :
          clears[i].session_id \notin DOMAIN clears[i].before =>
              /\ clears[i].after = clears[i].before
              /\ clears[i].cancelled_after = clears[i].cancelled_before

====
